---- MODULE Spec2Model ----
(***************************************************************************)
(* Dispatch engine of RoxInvoice: the BullMQ invoice queue and its single  *)
(* worker (backend/queue.js), the Pre-Flight security gate and the HTTP    *)
(* endpoints that submit, clear, retry and observe the queue.              *)
(***************************************************************************)
EXTENDS Integers, Sequences, FiniteSets, TLC

(* ------------------------------ bounds --------------------------------- *)
MaxJobs == 2         \* jobs enqueued over a behaviour
MaxBatch == 2        \* recipients of one submission
MaxRuns == 2         \* job executions the worker starts
MaxEmits == 102      \* telemetry events emitted between two deletes of the list
MaxSpintaxLen == 6   \* characters of a text given to parseSpintax
MaxPieces == 3       \* pieces a text given to replaceTags is made of

\* jobs that finish before the status query, and those of them that fail
MaxFinished == 22
MaxFailed == 1

\* renders requested of the worker and of the preview endpoint
MaxRenders == 3

\* pieces of a text with product tags
MaxTagPieces == 2

(* ------------------------- program constants --------------------------- *)
PauseTTL == 3600     \* setex paused_sender:<email> 3600
LogCap == 100        \* ltrim live_dispatch_logs -100 -1

\* the clock is observed once per life of a pause flag
TickStep == PauseTTL

Null == "null"
Senders == {"a@x.com", "b@x.com"}

(* ---------------------------- text helpers ----------------------------- *)
\* String.prototype.includes on texts kept as sequences of characters
Includes(msg, kw) ==
  \E k \in 0..(Len(msg) - Len(kw)) : SubSeq(msg, k + 1, k + Len(kw)) = kw

\* String.prototype.startsWith
startsWith(str, prefix) ==
  Len(prefix) <= Len(str) /\ SubSeq(str, 1, Len(prefix)) = prefix

UpperCase == <<"A", "B", "C", "D", "E", "F", "G", "H", "I", "J", "K", "L", "M", "N", "O", "P", "Q", "R", "S", "T", "U", "V", "W", "X", "Y", "Z">>
LowerCase == <<"a", "b", "c", "d", "e", "f", "g", "h", "i", "j", "k", "l", "m", "n", "o", "p", "q", "r", "s", "t", "u", "v", "w", "x", "y", "z">>
Digits == {"0", "1", "2", "3", "4", "5", "6", "7", "8", "9"}

\* the 'i' flag: letters are compared folded
toLowerChar(c) ==
  IF \E i \in 1..26 : UpperCase[i] = c
    THEN LowerCase[CHOOSE i \in 1..26 : UpperCase[i] = c]
    ELSE c

\* String.prototype.toLowerCase, character by character
lowerCased(str) == [k \in 1..Len(str) |-> toLowerChar(str[k])]

KwRateLimit == <<"R","a","t","e"," ","L","i","m","i","t">>
Kw421 == <<"4","2","1">>
Kw450 == <<"4","5","0">>
Kw452 == <<"4","5","2">>
Kw550545 == <<"5","5","0"," ","5",".","4",".","5">>
KwQuota == <<"q","u","o","t","a">>
KwBadCredentials == <<"B","a","d","C","r","e","d","e","n","t","i","a","l","s">>

\* the lexical classification of a transport error text
IsRateLimitMsg(msg) ==
  \/ Includes(msg, KwRateLimit) \/ Includes(msg, Kw421) \/ Includes(msg, Kw450)
  \/ Includes(msg, Kw452) \/ Includes(msg, Kw550545)
  \/ Includes(msg, KwQuota) \/ Includes(msg, KwBadCredentials)

\* transport error texts a provider may answer with
MsgOverQuota == <<"5","5","0"," ","5",".","4",".","5">>
MsgNoUser == <<"5","5","0"," ","5",".","1",".","1">>
SendErrors == {MsgOverQuota, MsgNoUser}

\* errors the worker itself raises
NoPoolMsg == <<"No sender pool provided in job data.">>
AllPausedMsg ==
  <<"All SMTP sender accounts are paused due to rate limits or invalid credentials.">>
TypeErrorMsg == <<"Cannot read properties of null (reading 'email')">>
RenderErrors == {<<"Navigation timeout of 60000 ms exceeded">>}

(* ------------------------- Pre-Flight gate ----------------------------- *)
\* An email body is a sequence of DOM elements; "" is the empty sequence.
\*   hidden: the style attribute matches one of the suspicious selectors
\*   text:   the element's trimmed text
\*   link:   the element's href when it is a hyperlink that has one, in a
\*           list that is empty otherwise.  Of an href the scan reads
\*     scheme: what precedes the host; "" when the href names none, so that
\*             new URL(href) throws; "#" for a fragment
\*     host:   urlObj.hostname, as the characters written in the href
\*     params: urlObj.searchParams, each a key and whether its value
\*             starts with 'http'
\*     pct25:  how often '%25' occurs in the href
Href(scheme, host, params, pct25) ==
  [scheme |-> scheme, host |-> host, params |-> params, pct25 |-> pct25]

Plain == [hidden |-> FALSE, text |-> "hello", link |-> <<>>]
Cloaked == [hidden |-> TRUE, text |-> "buy now", link |-> <<>>]
ShortLink == [hidden |-> FALSE, text |-> "go",
              link |-> <<Href("https", <<"b", "i", "t", ".", "l", "y">>, <<>>, 0)>>]

publicShorteners ==
  { <<"b", "i", "t", ".", "l", "y">>,
    <<"t", "i", "n", "y", "u", "r", "l", ".", "c", "o", "m">>,
    <<"t", ".", "c", "o">>,
    <<"c", "u", "t", "t", ".", "l", "y">>,
    <<"i", "s", ".", "g", "d">>,
    <<"g", "o", "o", ".", "g", "l">>,
    <<"o", "w", ".", "l", "y">>,
    <<"r", "e", "b", "r", "a", "n", "d", ".", "l", "y">> }

\* the keys of /^url$|^redirect$|^next$|^dest$|^to$/i, folded
routingKeys == {"url", "redirect", "next", "dest", "to"}

\* [...a, ...b, ...]: the concatenation of a sequence of flag lists
RECURSIVE Concat(_)
Concat(lists) ==
  IF lists = <<>> THEN <<>> ELSE Head(lists) \o Concat(Tail(lists))

CloakFlag(el) ==
  IF el.hidden /\ el.text # "" THEN <<"Content Cloaking">> ELSE <<>>

scanHtmlDomForCloaking(htmlBody) ==
  IF htmlBody = <<>> THEN <<>>
    ELSE Concat([k \in 1..Len(htmlBody) |-> CloakFlag(htmlBody[k])])

\* publicShorteners.some(domain => urlObj.hostname.toLowerCase().includes(domain))
isShortenerHost(hostname) ==
  \E domain \in publicShorteners : Includes(lowerCased(hostname), domain)

\* the three checks of the try block, in their order
hrefFlags(href) ==
  (IF isShortenerHost(href.host) THEN <<"Link Cloaking">> ELSE <<>>)
    \o Concat([k \in 1..Len(href.params) |->
                 IF href.params[k].key \in routingKeys \/ href.params[k].valueHttp
                   THEN <<"Open Redirect">> ELSE <<>>])
    \o (IF href.pct25 > 2 THEN <<"URL Obfuscation">> ELSE <<>>)

\* new URL(href) throws on an href without a scheme; the catch block lets
\* fragments pass
LinkFlag(el) ==
  IF el.link = <<>> THEN <<>>
  ELSE LET href == el.link[1]
       IN IF href.scheme = "" THEN <<"Malformed URL">>
          ELSE IF href.scheme = "#" THEN <<>>
          ELSE hrefFlags(href)

scanLinkIntegrity(htmlBody) ==
  IF htmlBody = <<>> THEN <<>>
    ELSE Concat([k \in 1..Len(htmlBody) |-> LinkFlag(htmlBody[k])])

\* What dns.resolveTxt answers: the error's code when it throws ("" when it
\* does not) and the TXT records, each an array of character strings
Answer(records) == [code |-> "", records |-> records]
Throws(code) == [code |-> code, records |-> <<>>]

PrefixSpf == <<"v", "=", "s", "p", "f", "1">>
PrefixDmarc == <<"v", "=", "D", "M", "A", "R", "C", "1">>

\* recordArray.join('')
join(recordArray) == Concat(recordArray)

\* faulty variant of recordMatches: the prefix anywhere in the record
recordMatchesAnywhere(recordArray, prefix) == Includes(join(recordArray), prefix)

\* record.startsWith(prefix), on the joined record
recordMatches(recordArray, prefix) == startsWith(join(recordArray), prefix)

\* one lookup as its try block sees it: the code thrown, or whether some
\* record of the answer begins with the prefix
resolveTxt(answer, prefix) ==
  IF answer.code # "" THEN answer.code
  ELSE IF \E k \in 1..Len(answer.records) : recordMatches(answer.records[k], prefix)
    THEN "match"
    ELSE "nomatch"

\* faulty variant of LookupFlag: every resolver error is a flag
LookupFlagAnyError(res, what) ==
  CASE res = "nomatch" -> <<"Infrastructure Hijacking">>
    [] res = "match" -> <<>>
    [] OTHER -> <<what>>

\* one try block: res is "match" or "nomatch" when the lookup answers, the
\* error's code when it throws
LookupFlag(res, what) ==
  CASE res = "nomatch" -> <<"Infrastructure Hijacking">>
    [] res \in {"ENOTFOUND", "ENODATA"} -> <<what>>
    [] OTHER -> <<>>

verifyInfrastructure(emailAddress, spf, dmarc) ==
  IF emailAddress = Null
    THEN <<"Infrastructure Error">>
    ELSE LookupFlag(spf, "SPF") \o LookupFlag(dmarc, "DMARC")

runPreFlightCheck(htmlBody, senderEmail, spf, dmarc) ==
  scanHtmlDomForCloaking(htmlBody) \o scanLinkIntegrity(htmlBody)
    \o verifyInfrastructure(senderEmail, spf, dmarc)

\* the outcome of the middleware: next() or the response it sends
segMiddleware(emailBody, senderPool, spf, dmarc) ==
  IF emailBody = <<>>
    THEN [ran |-> FALSE, flags |-> <<>>, status |-> "next"]
  ELSE IF senderPool # <<>> /\ senderPool[1] = Null
    THEN [ran |-> FALSE, flags |-> <<>>, status |-> "500"]
  ELSE LET primary == IF senderPool # <<>> THEN senderPool[1] ELSE Null
           flags == runPreFlightCheck(emailBody, primary, spf, dmarc)
       IN [ran |-> TRUE, flags |-> flags,
           status |-> IF Len(flags) > 0 THEN "400" ELSE "next"]

(* ------------------------------- state --------------------------------- *)
VARIABLES
  jobs,         \* BullMQ job records by id: data, state, failedReason, ...
  waitQ,        \* the wait list, oldest first
  nextId,       \* the queue's id counter
  liveLogs,     \* live_dispatch_logs: the Redis list, and the number of events
                \* pushed on it since it was last deleted (history); an entry's
                \* seq is its position among them
  pausedTtl,    \* paused_sender:<email>: seconds the key has left, 0 when absent
  w,            \* the worker: position in the processor and its locals
  runs,         \* job executions started so far
  created,      \* jobs enqueued so far
  store,        \* invoice_pdf:<invoiceNumber>: the value and the seconds the key has left
  input,        \* the arguments the text function under study is called with
  output        \* what it returned

vars == <<jobs, waitQ, nextId, liveLogs, pausedTtl, w, runs, created, store, input, output>>

NoError == <<>>

\* recipient addresses, as <<local part, domain>>
Gmail == <<"r", "gmail.com">>
Yahoo == <<"r", "Yahoo.com">>

\* The submissions explored: body, sender pool (the senders' emails) and the
\* answers of the SPF and DMARC lookups of the primary sender's domain; every
\* row of csvData carries the same address, deliveryMethod is left out
\* the display name the dashboard sends with a batch
SubmittedName == "Billing Department"

Sub(body, pool, spf, dmarc) ==
  [emailBody |-> body, senderPool |-> pool, spf |-> spf, dmarc |-> dmarc,
   Email |-> Gmail, deliveryMethod |-> Null, senderName |-> SubmittedName]

Submissions ==
  { Sub(<<Plain>>, <<"a@x.com">>, "match", "match"),
    Sub(<<Plain>>, <<"a@x.com", "b@x.com">>, "match", "match"),
    Sub(<<>>, <<"a@x.com">>, "nomatch", "match"),
    Sub(<<>>, <<>>, "match", "match"),
    Sub(<<Cloaked>>, <<"a@x.com">>, "match", "match"),
    Sub(<<Plain>>, <<"a@x.com">>, "nomatch", "ETIMEOUT"),
    Sub(<<Plain>>, <<>>, "match", "match"),
    Sub(<<Plain>>, <<Null>>, "match", "match") }

Idle ==
  [pc |-> "idle", job |-> 0, live |-> FALSE, pool |-> <<>>, i |-> 0,
   selected |-> Null, success |-> FALSE, lastError |-> NoError,
   isFirstAttempt |-> TRUE,
   sent |-> <<>>, skipped |-> <<>>, flagged |-> {}, renders |-> 0, numbers |-> {},
   delivered |-> 0, senderName |-> Null,
   deliveryMethod |-> Null, recipientDomain |-> Null, invoiceNumber |-> 0,
   randomDelay |-> 0]

\* the telemetry list before anything is pushed on it
EmptyLog == [list |-> <<>>, emitted |-> 0]

Init ==
  /\ jobs = <<>>
  /\ waitQ = <<>>
  /\ nextId = 0
  /\ liveLogs = EmptyLog
  /\ pausedTtl = [s \in Senders |-> 0]
  /\ w = Idle
  /\ runs = 0
  /\ created = 0
  /\ store = <<>>
  /\ input = <<>>
  /\ output = <<>>

(* ----------------------------- telemetry ------------------------------- *)
\* faulty variant of ltrim: the oldest entries are kept
ltrimHead(list) ==
  IF Len(list) > LogCap THEN SubSeq(list, 1, LogCap) ELSE list

\* ltrim live_dispatch_logs -100 -1
ltrim(list) ==
  IF Len(list) > LogCap
    THEN SubSeq(list, Len(list) - LogCap + 1, Len(list))
    ELSE list

\* rpush live_dispatch_logs, then ltrim
emitLiveLog(log, jobId, message, type) ==
  LET logEntry == [seq |-> log.emitted + 1, jobId |-> jobId, message |-> message, type |-> type]
  IN [list |-> ltrim(Append(log.list, logEntry)), emitted |-> log.emitted + 1]

RECURSIVE emitAll(_, _, _)
emitAll(log, jobId, events) ==
  IF events = <<>> THEN log
  ELSE emitAll(emitLiveLog(log, jobId, Head(events)[1], Head(events)[2]),
               jobId, Tail(events))

\* faulty variant of del: the list is left as it is
delNothing(log) == log

\* connection.del('live_dispatch_logs')
del(log) == EmptyLog

(* ------------------------------ the store ------------------------------ *)
\* connection.get(paused_sender:<email>) is truthy
isPaused(email) == pausedTtl[email] > 0

JobsIn(st) == {id \in DOMAIN jobs : jobs[id].st = st}

\* queue.add: INCR id, store the job, push it on the wait list
\* setex key, seconds, value
setex(st, key, seconds, value) ==
  [k \in DOMAIN st \cup {key} |->
     IF k = key THEN [value |-> value, ttl |-> seconds] ELSE st[k]]

\* invoice_pdf keys live 86400 * 30 seconds
DocTTL == 86400 * 30

\* the rendered document of an invoice, and its base64 text
pdfBuffer(invoiceNumber) == [pdf |-> invoiceNumber]
toBase64(buffer) == [base64 |-> buffer]

\* 'INV-' and 8 hex digits of a random UUID: the n-th execution's number is
\* written n, two executions never draw the same digits
generateInvoiceId(n) == n + 1

DefaultSenderName == "Invoice Dispatch"

\* senderName = 'Invoice Dispatch' in the destructuring of job.data
senderNameOf(data) ==
  IF "senderName" \in DOMAIN data THEN data.senderName ELSE DefaultSenderName

\* deliveryMethod = 'attachment' when the job data has none
deliveryMethodOf(data) ==
  IF data.deliveryMethod = Null THEN "attachment" ELSE data.deliveryMethod

\* faulty variant of persists: every delivery method stores the document
persistsAlways(deliveryMethod) == TRUE

\* the else branch of deliveryMethod === 'attachment'
persists(deliveryMethod) == deliveryMethod # "attachment"

toLowerCase(str) == IF str = "Yahoo.com" THEN "yahoo.com" ELSE str

\* recipient.Email.split('@')[1]?.toLowerCase() || ''
recipientDomainOf(recipient) ==
  IF Len(recipient.Email) >= 2 THEN toLowerCase(recipient.Email[2]) ELSE ""

strictDomains == {"yahoo.com", "aol.com", "verizon.net", "ymail.com"}

isStrict(recipientDomain) == recipientDomain \in strictDomains

\* Math.random(): the least value, the middle, the greatest one below 1
Rand == {"min", "mid", "max"}

\* Math.floor(Math.random() * n)
floorRandomTimes(r, n) ==
  CASE r = "min" -> 0
    [] r = "mid" -> n \div 2
    [] r = "max" -> n - 1

\* faulty variant of randomDelay: the strict window is not applied
randomDelayBaseline(r, recipientDomain) ==
  floorRandomTimes(r, 20000 - 8000 + 1) + 8000

\* 8 to 20 s, 25 to 45 s for a strict domain
randomDelay(r, recipientDomain) ==
  IF isStrict(recipientDomain)
    THEN floorRandomTimes(r, 45000 - 25000 + 1) + 25000
    ELSE floorRandomTimes(r, 20000 - 8000 + 1) + 8000

\* the data of a job the handler adds: recipient, senderPool and deliveryMethod
\* of the request (the templates are left out); req.senderName is not read
NewJob(req) ==
  [data |-> [senderPool |-> req.senderPool, recipient |-> [Email |-> req.Email],
             deliveryMethod |-> req.deliveryMethod],
   st |-> "waiting",
   failedReason |-> NoError, returnvalue |-> Null]

(* --------------------------- POST /api/dispatch ------------------------ *)
\* what the request is answered with: the gate's rejection (400 with the flags,
\* 500 when the gate itself fails), the handler's validation error, or success
\* faulty variant of dispatchResponse: the handler does not validate
dispatchResponseUnvalidated(csvN, emailBody, senderPool, spf, dmarc) ==
  LET gate == segMiddleware(emailBody, senderPool, spf, dmarc)
  IN IF gate.status # "next" THEN [status |-> gate.status, flags |-> gate.flags]
     ELSE [status |-> "200", flags |-> <<>>]

dispatchResponse(csvN, emailBody, senderPool, spf, dmarc) ==
  LET gate == segMiddleware(emailBody, senderPool, spf, dmarc)
  IN IF gate.status # "next" THEN [status |-> gate.status, flags |-> gate.flags]
     ELSE IF csvN = 0 \/ senderPool = <<>> THEN [status |-> "400", flags |-> <<>>]
     ELSE [status |-> "200", flags |-> <<>>]

\* segMiddleware, then the handler: validation, del live_dispatch_logs, one
\* queue.add per recipient
Dispatch(csvN, req) ==
  LET ids == (nextId + 1)..(nextId + csvN)
  IN /\ created + csvN <= MaxJobs
     /\ IF dispatchResponse(csvN, req.emailBody, req.senderPool, req.spf, req.dmarc).status # "200"
          THEN UNCHANGED <<jobs, waitQ, nextId, liveLogs, created>>
          ELSE /\ liveLogs' = del(liveLogs)
               /\ jobs' = [id \in DOMAIN jobs \cup ids |->
                             IF id \in ids THEN NewJob(req) ELSE jobs[id]]
               /\ waitQ' = waitQ \o [k \in 1..csvN |-> nextId + k]
               /\ nextId' = nextId + csvN
               /\ created' = created + csvN
     /\ UNCHANGED <<pausedTtl, w, runs, store, input, output>>

(* ------------------------------ the worker ----------------------------- *)
\* startIndex = parseInt(job.id) || 0
startIndex(jobId) == IF jobId = 0 THEN 0 ELSE jobId

\* faulty variant of senderIndex: every job starts its rotation at the pool's head
senderIndexFromHead(jobId, i, poolSize) == i % poolSize

\* senderIndex = (startIndex + i) % senderPool.length
senderIndex(jobId, i, poolSize) == (startIndex(jobId) + i) % poolSize

\* faulty variant of candidateSender: every turn takes the candidate at the offset
candidateSenderAtOffset(jobId, i, pool) == pool[senderIndex(jobId, 0, Len(pool)) + 1]

\* senderPool[senderIndex]; JavaScript arrays count from 0
candidateSender(jobId, i, pool) == pool[senderIndex(jobId, i, Len(pool)) + 1]

concurrency == 1

running == IF w.pc = "idle" THEN 0 ELSE 1

\* faulty variant of HasFreeSlot: the worker fetches while its processor is running
HasFreeSlotAlways(n) == TRUE

\* the worker fetches a job only while fewer than `concurrency` are running
HasFreeSlot(n) == n < concurrency

\* faulty variant of Dequeue: with nothing waiting, a failed job is run again
DequeueOrRerun ==
  /\ HasFreeSlot(running)
  /\ runs < MaxRuns
  /\ runs' = runs + 1
  /\ waitQ # <<>> \/ JobsIn("failed") # {}
  /\ LET id == IF waitQ # <<>> THEN Head(waitQ) ELSE CHOOSE x \in JobsIn("failed") : TRUE
     IN /\ waitQ' = IF waitQ # <<>> THEN Tail(waitQ) ELSE waitQ
        /\ jobs' = [jobs EXCEPT ![id].st = "active"]
        /\ w' = [Idle EXCEPT !.pc = "check", !.job = id, !.live = TRUE,
                             !.pool = jobs[id].data.senderPool,
                             !.deliveryMethod = deliveryMethodOf(jobs[id].data),
                             !.recipientDomain = recipientDomainOf(jobs[id].data.recipient),
                             !.invoiceNumber = generateInvoiceId(runs),
                             !.senderName = senderNameOf(jobs[id].data)]
  /\ UNCHANGED <<nextId, liveLogs, pausedTtl, created, store, input, output>>

\* The worker takes the oldest waiting job and starts its processor.
Dequeue ==
  /\ HasFreeSlot(running)
  /\ runs < MaxRuns
  /\ runs' = runs + 1
  /\ waitQ # <<>>
  /\ LET id == Head(waitQ)
     IN /\ waitQ' = Tail(waitQ)
        /\ jobs' = [jobs EXCEPT ![id].st = "active"]
        /\ w' = [Idle EXCEPT !.pc = "check", !.job = id, !.live = TRUE,
                             !.pool = jobs[id].data.senderPool,
                             !.deliveryMethod = deliveryMethodOf(jobs[id].data),
                             !.recipientDomain = recipientDomainOf(jobs[id].data.recipient),
                             !.invoiceNumber = generateInvoiceId(runs),
                             !.senderName = senderNameOf(jobs[id].data)]
  /\ UNCHANGED <<nextId, liveLogs, pausedTtl, created, store, input, output>>

\* The processor throws err: the outer catch logs it and rethrows, and BullMQ
\* records the job as failed with the error's message (no attempts option is
\* given, so the job is not run again).
\* faulty variant of Thrown: the job is not moved to failed
ThrownUnrecorded(log, err) ==
  /\ w' = Idle
  /\ liveLogs' = emitLiveLog(log, w.job, "Job failed FATALLY", "error")
  /\ jobs' = jobs

\* the processor's catch: emit, rethrow; BullMQ moves the job to failed
Thrown(log, err) ==
  /\ w' = Idle
  /\ liveLogs' = emitLiveLog(log, w.job, "Job failed FATALLY", "error")
  /\ jobs' = IF w.live
               THEN [jobs EXCEPT ![w.job].st = "failed", ![w.job].failedReason = err]
               ELSE jobs

\* faulty variant of exhaustedError: the last error is rethrown even when there is none
exhaustedErrorLast(lastError) == lastError

\* if (lastError) throw lastError; throw new Error('All SMTP sender ...')
exhaustedError(lastError) ==
  IF lastError # NoError THEN lastError ELSE AllPausedMsg

\* `continue`: the next turn of the loop, or its end with nothing sent
Continue(wx, log) ==
  IF wx.i >= Len(wx.pool)
    THEN Thrown(log, exhaustedError(wx.lastError))
    ELSE /\ w' = [wx EXCEPT !.pc = "check"]
         /\ liveLogs' = log
         /\ UNCHANGED jobs

\* faulty variant of Skips: the pause flag is read but a paused candidate is used
SkipsNever(email) == FALSE

\* the rotation loop's pause check
Skips(email) == isPaused(email)

\* "${senderName}" <${selectedSender.email}>
fromHeader(wx) == [name |-> wx.senderName, address |-> wx.selected]

\* faulty variant of attemptInvoiceNumber: every turn of the loop draws a
\* number of its own
attemptInvoiceNumberFresh(wx) == generateInvoiceId(wx.invoiceNumber + wx.i)

\* the invoiceNumber a turn of the loop puts in the body, the viewer link,
\* the attachment's file name and the key of the stored document: the const
\* drawn before the loop
attemptInvoiceNumber(wx) == wx.invoiceNumber

\* One turn of the rotation loop up to the render: the pause check of the
\* candidate and, for a usable candidate, the content build.
Check ==
  /\ w.pc = "check"
  /\ IF w.pool = <<>>
       THEN Thrown(liveLogs, NoPoolMsg)
     ELSE LET cand == candidateSender(w.job, w.i, w.pool)
          IN IF cand = Null
               THEN Thrown(liveLogs, TypeErrorMsg)
             ELSE IF Skips(cand)
               THEN Continue([w EXCEPT !.i = @ + 1, !.skipped = Append(@, cand)],
                             IF w.i = Len(w.pool) - 1 /\ ~w.success
                               THEN emitLiveLog(liveLogs, w.job, "SKIP", "warning")
                               ELSE liveLogs)
             ELSE /\ w' = [w EXCEPT !.pc = "render", !.selected = cand,
                                    !.isFirstAttempt = FALSE,
                                    !.numbers = @ \cup {attemptInvoiceNumber(w)}]
                  /\ liveLogs' =
                       emitAll(liveLogs, w.job,
                         <<<<"Starting", "info">>, <<"Via Sender", "info">>,
                           <<"Subject", "info">>, <<"Body", "info">>>>
                         \o (IF w.isFirstAttempt
                               THEN <<<<"Payload Size", "info">>>> ELSE <<>>)
                         \o <<<<"Generating PDF", "info">>>>)
                  /\ UNCHANGED jobs
  /\ UNCHANGED <<waitQ, nextId, pausedTtl, runs, created, store, input, output>>

\* puppeteer renders the PDF
RenderOk ==
  /\ w.pc = "render"
  /\ w' = [w EXCEPT !.pc = "send", !.renders = @ + 1,
                    !.numbers = @ \cup {attemptInvoiceNumber(w)}]
  /\ store' = IF persists(w.deliveryMethod)
                THEN setex(store, attemptInvoiceNumber(w), DocTTL,
                           toBase64(pdfBuffer(attemptInvoiceNumber(w))))
                ELSE store
  /\ UNCHANGED <<jobs, waitQ, nextId, liveLogs, pausedTtl, runs, created, input, output>>

\* faulty variant of PuppeteerMsg: the root cause is dropped from the wrapped error
PuppeteerMsgBare(m) == <<"Puppeteer engine failed to build PDF.">>

\* throw new Error(`Puppeteer engine failed to build PDF. Root cause: ${m}`)
PuppeteerMsg(m) == <<"Puppeteer engine failed to build PDF. Root cause: ">> \o m

\* puppeteer fails with pdfError: logged, wrapped and thrown
RenderFail(m) ==
  /\ w.pc = "render"
  /\ Thrown(emitLiveLog(liveLogs, w.job, "PDF Generation FATAL Crash", "error"),
            PuppeteerMsg(m))
  /\ UNCHANGED <<waitQ, nextId, pausedTtl, runs, created, store, input, output>>

\* faulty variant of SendOk: no break, the loop goes on to the next sender
SendOkNoBreak(r) ==
  /\ w.pc = "send"
  /\ w' = [w EXCEPT !.pc = IF w.i + 1 < Len(w.pool) THEN "check" ELSE "throttle",
                    !.i = @ + 1, !.success = TRUE,
                    !.sent = Append(@, w.selected), !.delivered = @ + 1,
                    !.randomDelay = randomDelay(r, w.recipientDomain)]
  /\ liveLogs' = emitLiveLog(liveLogs, w.job, "Email physically sent", "success")
  /\ UNCHANGED <<jobs, waitQ, nextId, pausedTtl, runs, created, store, input, output>>

\* transporter.sendMail through the selected sender resolves, the message
\* is delivered: the loop is left and the throttle delay is announced
SendOk(r) ==
  /\ w.pc = "send"
  /\ w' = [w EXCEPT !.pc = "throttle", !.success = TRUE,
                    !.sent = Append(@, w.selected), !.delivered = @ + 1,
                    !.randomDelay = randomDelay(r, w.recipientDomain)]
  /\ liveLogs' = emitAll(liveLogs, w.job,
                   <<<<"Email physically sent", "success">>,
                     IF isStrict(w.recipientDomain)
                       THEN <<"Strict domain network detected", "warning">>
                       ELSE <<"Pausing worker", "timer">>>>)
  /\ UNCHANGED <<jobs, waitQ, nextId, pausedTtl, runs, created, store, input, output>>

\* faulty variant of onSendError: every transport error pauses the sender and rotates
onSendErrorAlwaysPause(msg) == "pause"

\* the catch of the send: pause-and-continue for a rate-limit-shaped error
\* text, rethrow for any other
onSendError(msg) == IF IsRateLimitMsg(msg) THEN "pause" ELSE "throw"

\* faulty variant of pauseSender: the flag lives half an hour
pauseSenderShort(ttl, email) == [ttl EXCEPT ![email] = 1800]

\* setex paused_sender:<email> 3600 'true'
pauseSender(ttl, email) == [ttl EXCEPT ![email] = PauseTTL]

\* transporter.sendMail through the selected sender rejects with err: the
\* catch block records it (lastError = err) and reaches its first await
SendFail(msg) ==
  /\ w.pc = "send"
  /\ w' = [w EXCEPT !.pc = "caught", !.lastError = msg,
                    !.sent = Append(@, w.selected)]
  /\ UNCHANGED <<jobs, waitQ, nextId, liveLogs, pausedTtl, runs, created, store, input, output>>

\* the rest of the catch block: pause the sender and rotate, or rethrow
Caught ==
  /\ w.pc = "caught"
  /\ IF onSendError(w.lastError) = "pause"
       THEN /\ Continue([w EXCEPT !.i = @ + 1, !.flagged = @ \cup {w.selected}],
                        emitLiveLog(liveLogs, w.job, "RATE LIMIT / BLOCKED", "error"))
            /\ pausedTtl' = pauseSender(pausedTtl, w.selected)
       ELSE /\ Thrown(liveLogs, w.lastError)
            /\ UNCHANGED pausedTtl
  /\ UNCHANGED <<waitQ, nextId, runs, created, store, input, output>>

\* faulty variant of Complete: the result names the first sender attempted
CompleteNamesFirst ==
  /\ w.pc = "throttle"
  /\ w' = Idle
  /\ jobs' = IF w.live
               THEN [jobs EXCEPT ![w.job].st = "completed",
                                 ![w.job].returnvalue =
                                   [invoiceNumber |-> w.invoiceNumber, sender |-> w.sent[1]]]
               ELSE jobs
  /\ UNCHANGED <<waitQ, nextId, liveLogs, pausedTtl, runs, created, store, input, output>>

\* the throttle wait is over, the processor returns and BullMQ records the
\* job as completed (when its record still exists)
Complete ==
  /\ w.pc = "throttle"
  /\ w' = Idle
  /\ jobs' = IF w.live
               THEN [jobs EXCEPT ![w.job].st = "completed",
                                 ![w.job].returnvalue =
                                   [invoiceNumber |-> w.invoiceNumber, sender |-> w.selected]]
               ELSE jobs
  /\ UNCHANGED <<waitQ, nextId, liveLogs, pausedTtl, runs, created, store, input, output>>

(* ----------------------- DELETE /api/dispatch/clear -------------------- *)
\* faulty variant of clean: the jobs that wait are kept
cleanFinishedOnly(js, type) ==
  [id \in {x \in DOMAIN js : js[x].st # type \/ type \in {"waiting", "active"}} |-> js[id]]

\* queue.clean(0, limit, type): removes the jobs of one category; an active
\* job whose lock the worker holds is left alone
clean(js, type) ==
  LET gone == {id \in DOMAIN js :
                 /\ js[id].st = type
                 /\ ~(type = "active" /\ w.pc # "idle" /\ w.live /\ w.job = id)}
  IN [id \in DOMAIN js \ gone |-> js[id]]

\* faulty variant of Clear: the pause flags go with the queue's keys
ClearFlushes(obliterateThrows) ==
  /\ jobs' = <<>>
  /\ waitQ' = <<>>
  /\ nextId' = 0
  /\ w' = IF w.pc = "idle" THEN w ELSE [w EXCEPT !.live = FALSE]
  /\ pausedTtl' = [s \in Senders |-> 0]
  /\ UNCHANGED <<liveLogs, runs, created, store, input, output>>

\* obliterate({force: true}) removes every job and the id counter; when it
\* throws, the handler pauses, cleans each category and resumes.  The list
\* live_dispatch_logs is not touched on either path, and neither are the
\* paused_sender keys, which lie outside the queue's key prefix.
Clear(obliterateThrows) ==
  /\ IF ~obliterateThrows
       THEN /\ jobs' = <<>>
            /\ waitQ' = <<>>
            /\ nextId' = 0
            /\ w' = IF w.pc = "idle" THEN w ELSE [w EXCEPT !.live = FALSE]
       ELSE /\ jobs' = clean(clean(clean(clean(jobs, "waiting"), "active"),
                                   "completed"), "failed")
            /\ waitQ' = <<>>
            /\ UNCHANGED <<nextId, w>>
  /\ UNCHANGED <<liveLogs, pausedTtl, runs, created, store, input, output>>

(* ----------------------- POST /api/dispatch/retry ---------------------- *)
\* the orders in which the retried jobs may reach the wait list
Orders(S) ==
  {q \in [1..Cardinality(S) -> S] : \A a, b \in 1..Cardinality(S) : q[a] = q[b] => a = b}

\* faulty variant of Retry: the completed jobs are queued again as well
RetryEveryFinished ==
  /\ JobsIn("failed") # {}
  /\ \E q \in Orders(JobsIn("failed") \cup JobsIn("completed")) : waitQ' = waitQ \o q
  /\ jobs' = [id \in DOMAIN jobs |->
                IF jobs[id].st \in {"failed", "completed"}
                  THEN [jobs[id] EXCEPT !.st = "waiting", !.failedReason = NoError]
                  ELSE jobs[id]]
  /\ UNCHANGED <<nextId, liveLogs, pausedTtl, w, runs, created, store, input, output>>

\* job.retry() on every failed job: back to the wait list, result fields reset
Retry ==
  /\ JobsIn("failed") # {}
  /\ \E q \in Orders(JobsIn("failed")) : waitQ' = waitQ \o q
  /\ jobs' = [id \in DOMAIN jobs |->
                IF jobs[id].st = "failed"
                  THEN [jobs[id] EXCEPT !.st = "waiting", !.failedReason = NoError]
                  ELSE jobs[id]]
  /\ UNCHANGED <<nextId, liveLogs, pausedTtl, w, runs, created, store, input, output>>

(* ---------------------- GET /api/dispatch-status ----------------------- *)
getJobCounts ==
  [waiting |-> Cardinality(JobsIn("waiting")), active |-> Cardinality(JobsIn("active")),
   completed |-> Cardinality(JobsIn("completed")), failed |-> Cardinality(JobsIn("failed"))]

\* what the handler answers: the counts and the telemetry list
dispatchStatus == [counts |-> getJobCounts, liveLogs |-> liveLogs.list]

\* the query reads the store and changes nothing
Status == UNCHANGED vars

(* ------------------------------ the clock ------------------------------ *)
\* time passes: Redis counts the keys' TTLs down and drops a key at 0
Elapse(d) ==
  /\ pausedTtl' = [s \in Senders |-> IF pausedTtl[s] > d THEN pausedTtl[s] - d ELSE 0]
  /\ store' = [k \in {x \in DOMAIN store : store[x].ttl > d} |->
                 [store[k] EXCEPT !.ttl = @ - d]]
  /\ UNCHANGED <<jobs, waitQ, nextId, liveLogs, w, runs, created, input, output>>

\* an hour passes
Tick == Elapse(TickStep)

Next ==
  \/ \E n \in 0..MaxBatch, s \in Submissions : Dispatch(n, s)
  \/ Dequeue
  \/ Check
  \/ RenderOk
  \/ \E m \in RenderErrors : RenderFail(m)
  \/ SendOk("mid")    \* no other step reads the delay drawn; SpecDelivery draws them all
  \/ \E msg \in SendErrors : SendFail(msg)
  \/ Caught
  \/ Complete
  \/ \E t \in BOOLEAN : Clear(t)
  \/ Retry
  \/ Status
  \/ Tick

Spec == Init /\ [][Next]_vars

(* ------------------- a batch left to run to its end -------------------- *)
\* the worker's steps: every await of the processor resolves or rejects
WorkerStep ==
  \/ Dequeue
  \/ Check
  \/ RenderOk
  \/ \E m \in RenderErrors : RenderFail(m)
  \/ SendOk("mid")
  \/ \E msg \in SendErrors : SendFail(msg)
  \/ Caught
  \/ Complete

\* neither clear nor retry is invoked
NextLive ==
  \/ \E n \in 0..MaxBatch, s \in Submissions : Dispatch(n, s)
  \/ WorkerStep
  \/ Status
  \/ Tick

\* the worker is started with the process and polls the queue for ever
SpecLive == Init /\ [][NextLive]_vars /\ WF_vars(WorkerStep)

(* ------------------- delivery modes and the throttle -------------------- *)
\* submissions that pass the gate: each delivery method, recipients inside
\* and outside the strict domains
DeliverySub(deliveryMethod, Email) ==
  [Sub(<<Plain>>, <<"a@x.com", "b@x.com">>, "match", "match")
     EXCEPT !.deliveryMethod = deliveryMethod, !.Email = Email]

DeliverySubmissions ==
  { DeliverySub(Null, Gmail), DeliverySub("attachment", Yahoo), DeliverySub("link", Gmail) }

\* the invoice numbers asked for: those drawn so far and one never drawn
InvoiceIds == 1..(MaxRuns + 1)

\* faulty variant of getInvoice: a missing key is answered with an empty document
getInvoiceLenient(id) ==
  [status |-> "200", success |-> TRUE,
   pdfBase64 |-> IF id \in DOMAIN store THEN store[id].value ELSE Null]

\* GET /api/invoice/:id answers with the stored text or not-found
getInvoice(id) ==
  IF id \in DOMAIN store
    THEN [status |-> "200", success |-> TRUE, pdfBase64 |-> store[id].value]
    ELSE [status |-> "404", error |-> "Invoice not found or expired"]

\* the handler reads the key and writes nothing
Invoice(id) == UNCHANGED vars

\* fifteen days pass
HalfDocTTL == Elapse(DocTTL \div 2)

\* a crashing render ends a job before anything is stored or sent: Spec has it
NextDelivery ==
  \/ \E n \in 0..MaxBatch, s \in DeliverySubmissions : Dispatch(n, s)
  \/ Dequeue
  \/ Check
  \/ RenderOk
  \/ \E r \in Rand : SendOk(r)
  \/ \E msg \in SendErrors : SendFail(msg)
  \/ Caught
  \/ Complete
  \/ \E id \in InvoiceIds : Invoice(id)
  \/ HalfDocTTL

SpecDelivery == Init /\ [][NextDelivery]_vars

(* ------------------------------ parseSpintax ---------------------------- *)
\* texts are sequences of characters
SpintaxAlphabet == {"{", "}", "|", "a", "b"}

SpintaxTexts == UNION {[1..n -> SpintaxAlphabet] : n \in 0..MaxSpintaxLen}

\* where the match of /\{([^{}]*\|[^{}]*)\}/ that starts at i ends, 0 when
\* there is none: the next brace after i closes, and a pipe lies in between
spintaxMatchEnd(t, i) ==
  IF t[i] # "{" THEN 0
  ELSE LET braces == {j \in (i + 1)..Len(t) : t[j] \in {"{", "}"}}
       IN IF braces = {} THEN 0
          ELSE LET j == CHOOSE x \in braces : \A y \in braces : x <= y
               IN IF t[j] = "}" /\ \E k \in (i + 1)..(j - 1) : t[k] = "|" THEN j ELSE 0

\* spintaxRegex.test(result)
spintaxTest(t) == \E i \in 1..Len(t) : spintaxMatchEnd(t, i) > 0

\* faulty variant of split: the text is not cut, the pipes stay
splitWhole(contents) == <<contents>>

\* contents.split('|')
RECURSIVE split(_)
split(contents) ==
  LET pipes == {k \in 1..Len(contents) : contents[k] = "|"}
  IN IF pipes = {} THEN <<contents>>
     ELSE LET k == CHOOSE x \in pipes : \A y \in pipes : x <= y
          IN <<SubSeq(contents, 1, k - 1)>> \o split(SubSeq(contents, k + 1, Len(contents)))

\* result.replace(spintaxRegex, ...): every match from the left, each by one
\* of its options; the set of the texts the random picks can give
RECURSIVE spintaxReplace(_)
spintaxReplace(t) ==
  LET starts == {i \in 1..Len(t) : spintaxMatchEnd(t, i) > 0}
  IN IF starts = {} THEN {t}
     ELSE LET i == CHOOSE x \in starts : \A y \in starts : x <= y
              j == spintaxMatchEnd(t, i)
              options == split(SubSeq(t, i + 1, j - 1))
          IN { SubSeq(t, 1, i - 1) \o options[o] \o rest :
                 o \in 1..Len(options), rest \in spintaxReplace(SubSeq(t, j + 1, Len(t))) }

\* everything but the text is as Init leaves it
InitSpintax ==
  /\ jobs = <<>>
  /\ waitQ = <<>>
  /\ nextId = 0
  /\ liveLogs = EmptyLog
  /\ pausedTtl = [s \in Senders |-> 0]
  /\ w = Idle
  /\ runs = 0
  /\ created = 0
  /\ store = <<>>
  /\ input \in {[text |-> t] : t \in SpintaxTexts}
  /\ output = [pc |-> "call", result |-> <<>>, passes |-> 0]

\* if (!text) return text; let result = text
SpintaxEnter ==
  /\ output.pc = "call"
  /\ output' = IF input.text = <<>>
                 THEN [output EXCEPT !.pc = "returned", !.result = input.text]
                 ELSE [output EXCEPT !.pc = "loop", !.result = input.text]
  /\ UNCHANGED <<jobs, waitQ, nextId, liveLogs, pausedTtl, w, runs, created, store, input>>

\* one turn of the while loop; passes counts the turns taken, the loop
\* itself keeps no count
SpintaxPass ==
  /\ output.pc = "loop"
  /\ spintaxTest(output.result)
  /\ \E r \in spintaxReplace(output.result) :
       output' = [output EXCEPT !.result = r, !.passes = @ + 1]
  /\ UNCHANGED <<jobs, waitQ, nextId, liveLogs, pausedTtl, w, runs, created, store, input>>

\* the loop ends, return result
SpintaxReturn ==
  /\ output.pc = "loop"
  /\ ~ spintaxTest(output.result)
  /\ output' = [output EXCEPT !.pc = "returned"]
  /\ UNCHANGED <<jobs, waitQ, nextId, liveLogs, pausedTtl, w, runs, created, store, input>>

NextSpintax ==
  \/ SpintaxEnter
  \/ SpintaxPass
  \/ SpintaxReturn

SpecSpintax == InitSpintax /\ [][NextSpintax]_vars

(* ------------------------------- replaceTags ---------------------------- *)
\* \w
IsWordChar(c) == \/ \E i \in 1..26 : LowerCase[i] = toLowerChar(c)
                 \/ c \in Digits
                 \/ c = "_"

\* what . does not match
IsLineTerminator(c) == c \in {"\n", "\r"}

\* [\s_]
IsSpaceOrUnderscore(c) == c \in {" ", "\t", "\n", "\r", "_"}

\* the keywords: one word, or two with [\s_]* between them
KwName == <<<<"n", "a", "m", "e">>>>
KwEmail == <<<<"e", "m", "a", "i", "l">>>>
KwInvoiceNumber == <<<<"i", "n", "v", "o", "i", "c", "e">>, <<"n", "u", "m", "b", "e", "r">>>>
KwProductName == <<<<"p", "r", "o", "d", "u", "c", "t">>, <<"n", "a", "m", "e">>>>
KwItemQuantity == <<<<"i", "t", "e", "m">>, <<"q", "u", "a", "n", "t", "i", "t", "y">>>>
KwItemPrice == <<<<"i", "t", "e", "m">>, <<"p", "r", "i", "c", "e">>>>
KwInvoiceValue == <<<<"i", "n", "v", "o", "i", "c", "e">>, <<"v", "a", "l", "u", "e">>>>

wordAt(t, k, word) ==
  /\ k + Len(word) - 1 <= Len(t)
  /\ \A i \in 1..Len(word) : toLowerChar(t[k + i - 1]) = word[i]

\* where the keyword that starts at k ends, 0 when it does not start there
keywordEnd(t, k, kw) ==
  IF ~ wordAt(t, k, kw[1]) THEN 0
  ELSE IF Len(kw) = 1 THEN k + Len(kw[1]) - 1
  ELSE LET a == k + Len(kw[1])
           rest == {b \in a..Len(t) : ~ IsSpaceOrUnderscore(t[b])}
       IN IF rest = {} THEN 0
          ELSE LET b == CHOOSE x \in rest : \A y \in rest : x <= y
               IN IF wordAt(t, b, kw[2]) THEN b + Len(kw[2]) - 1 ELSE 0

\* \b on either side of the keyword
boundaryBefore(t, k) == k = 1 \/ ~ IsWordChar(t[k - 1])
boundaryAfter(t, e) == e = Len(t) \/ ~ IsWordChar(t[e + 1])

\* .*?\}+ after position e: the first closing brace on the line, then all the
\* closing braces that follow it; 0 when the line has none
closingEnd(t, e) ==
  LET closers == {c \in (e + 1)..Len(t) :
                    /\ t[c] = "}"
                    /\ \A x \in (e + 1)..(c - 1) : ~ IsLineTerminator(t[x])}
  IN IF closers = {} THEN 0
     ELSE LET c == CHOOSE x \in closers : \A y \in closers : x <= y
              others == {x \in c..(Len(t) + 1) : x = Len(t) + 1 \/ t[x] # "}"}
          IN (CHOOSE x \in others : \A y \in others : x <= y) - 1

\* where the match of \{+.*?\b(?:kw)\b.*?\}+ that starts at p ends, 0 when
\* none starts there: after the opening braces the lazy .*? stops at the first
\* keyword on the line that has a closing brace after it
tagMatchEnd(t, p, kw) ==
  IF t[p] # "{" THEN 0
  ELSE LET others == {x \in p..(Len(t) + 1) : x = Len(t) + 1 \/ t[x] # "{"}
           n == CHOOSE x \in others : \A y \in others : x <= y
           ks == {k \in n..Len(t) :
                    /\ \A x \in n..(k - 1) : ~ IsLineTerminator(t[x])
                    /\ boundaryBefore(t, k)
                    /\ keywordEnd(t, k, kw) > 0
                    /\ boundaryAfter(t, keywordEnd(t, k, kw))
                    /\ closingEnd(t, keywordEnd(t, k, kw)) > 0}
       IN IF ks = {} THEN 0
          ELSE closingEnd(t, keywordEnd(t, CHOOSE x \in ks : \A y \in ks : x <= y, kw))

\* result.replace(pattern, replacementText) with the 'g' flag; the values
\* explored hold no '$'
RECURSIVE cleanReplace(_, _, _)
cleanReplace(t, kw, replacementText) ==
  LET starts == {p \in 1..Len(t) : tagMatchEnd(t, p, kw) > 0}
  IN IF starts = {} THEN t
     ELSE LET p == CHOOSE x \in starts : \A y \in starts : x <= y
              e == tagMatchEnd(t, p, kw)
          IN SubSeq(t, 1, p - 1) \o replacementText
               \o cleanReplace(SubSeq(t, e + 1, Len(t)), kw, replacementText)

\* value || fallback
OrElse(value, fallback) == IF value = <<>> THEN fallback ELSE value

DefaultName == <<"C", "u", "s", "t", "o", "m", "e", "r">>
DefaultProduct == <<"I", "t", "e", "m">>
DefaultQuantity == <<"1">>
DefaultPrice == <<"0", ".", "0", "0">>

replaceTags(text, recipient, invoiceNumber, itemQuantity, itemPrice) ==
  IF text = <<>> THEN <<>>
  ELSE LET r1 == cleanReplace(text, KwName, OrElse(recipient.Name, DefaultName))
           r2 == cleanReplace(r1, KwEmail, OrElse(recipient.Email, <<>>))
           r3 == cleanReplace(r2, KwInvoiceNumber, invoiceNumber)
           r4 == cleanReplace(r3, KwProductName, OrElse(recipient.Product_Name, DefaultProduct))
           r5 == cleanReplace(r4, KwItemQuantity, OrElse(itemQuantity, DefaultQuantity))
           r6 == cleanReplace(r5, KwItemPrice, OrElse(itemPrice, DefaultPrice))
       IN cleanReplace(r6, KwInvoiceValue, OrElse(itemPrice, DefaultPrice))

\* the pieces texts are made of: recognized tags, a tag no keyword names,
\* words and a line break
TagName == <<"{", "{", "N", "a", "m", "e", "}", "}">>
TagEmail == <<"{", "{", "E", "m", "a", "i", "l", "}", "}">>
TagInvoiceNumber == <<"{", "I", "n", "v", "o", "i", "c", "e", "_", "N", "u", "m", "b", "e", "r", "}">>
TagFoo == <<"{", "{", "F", "o", "o", "}", "}">>
Words == <<" ", "a", "n", "d", " ">>
LineBreak == <<"\n">>

Pieces == {TagName, TagEmail, TagInvoiceNumber, TagFoo, Words, LineBreak}

PieceLists == UNION {[1..n -> Pieces] : n \in 0..MaxPieces}

RECURSIVE Flatten(_)
Flatten(pieces) == IF pieces = <<>> THEN <<>> ELSE Head(pieces) \o Flatten(Tail(pieces))

\* rows of the recipient list: a plain one, one without a name, one whose
\* address field holds tag text
Recipients ==
  { [Name |-> <<"B", "o", "b">>, Email |-> <<"b", "@", "x", ".", "i", "o">>, Product_Name |-> <<>>],
    [Name |-> <<>>, Email |-> <<"b", "@", "x", ".", "i", "o">>, Product_Name |-> <<>>],
    [Name |-> <<"B", "o", "b">>, Email |-> <<"{", "N", "a", "m", "e", "}">>, Product_Name |-> <<>>] }

InvoiceNumberText == <<"I", "N", "V", "-", "1", "A", "2", "B", "3", "C", "4", "D">>
ItemPriceText == <<"9", ".", "5", "0">>

\* everything but the arguments is as Init leaves it
InitTags ==
  /\ jobs = <<>>
  /\ waitQ = <<>>
  /\ nextId = 0
  /\ liveLogs = EmptyLog
  /\ pausedTtl = [s \in Senders |-> 0]
  /\ w = Idle
  /\ runs = 0
  /\ created = 0
  /\ store = <<>>
  /\ input \in {[pieces |-> ps, text |-> Flatten(ps), recipient |-> r,
                 invoiceNumber |-> InvoiceNumberText, itemQuantity |-> <<>>,
                 itemPrice |-> ItemPriceText] : ps \in PieceLists, r \in Recipients}
  /\ output = [pc |-> "call", first |-> <<>>, second |-> <<>>]

\* replaceTags(text, recipient, invoiceNumber, itemQuantity, itemPrice)
ReplaceTags ==
  /\ output.pc = "call"
  /\ output' = [output EXCEPT !.pc = "once",
                  !.first = replaceTags(input.text, input.recipient, input.invoiceNumber,
                                        input.itemQuantity, input.itemPrice)]
  /\ UNCHANGED <<jobs, waitQ, nextId, liveLogs, pausedTtl, w, runs, created, store, input>>

\* replaceTags applied to what it returned, with the same values
ReplaceTagsAgain ==
  /\ output.pc = "once"
  /\ output' = [output EXCEPT !.pc = "twice",
                  !.second = replaceTags(output.first, input.recipient, input.invoiceNumber,
                                         input.itemQuantity, input.itemPrice)]
  /\ UNCHANGED <<jobs, waitQ, nextId, liveLogs, pausedTtl, w, runs, created, store, input>>

NextTags ==
  \/ ReplaceTags
  \/ ReplaceTagsAgain

SpecTags == InitTags /\ [][NextTags]_vars

\* texts with the product tag in its spellings, beside the name tag
TagProductSpace == <<"{", "{", "P", "r", "o", "d", "u", "c", "t", " ", "N", "a", "m", "e", "}", "}">>
TagProductUnderscore == <<"{", "{", "P", "r", "o", "d", "u", "c", "t", "_", "N", "a", "m", "e", "}", "}">>
TagProductUpper == <<"{", "P", "R", "O", "D", "U", "C", "T", "_", "N", "A", "M", "E", "}">>
TagProductJoined == <<"{", "{", "p", "r", "o", "d", "u", "c", "t", "n", "a", "m", "e", "}", "}">>

ProductTags == {TagProductSpace, TagProductUnderscore, TagProductUpper, TagProductJoined}

ProductPieces == ProductTags \cup {TagName, Words}

ProductPieceLists == UNION {[1..n -> ProductPieces] : n \in 0..MaxTagPieces}

ProductRecipients ==
  { [Name |-> <<"B", "o", "b">>, Email |-> <<"b", "@", "x", ".", "i", "o">>,
     Product_Name |-> <<"P", "e", "n">>],
    [Name |-> <<"B", "o", "b">>, Email |-> <<"b", "@", "x", ".", "i", "o">>,
     Product_Name |-> <<>>] }

InitProduct ==
  /\ jobs = <<>>
  /\ waitQ = <<>>
  /\ nextId = 0
  /\ liveLogs = EmptyLog
  /\ pausedTtl = [s \in Senders |-> 0]
  /\ w = Idle
  /\ runs = 0
  /\ created = 0
  /\ store = <<>>
  /\ input \in {[pieces |-> ps, text |-> Flatten(ps), recipient |-> r,
                 invoiceNumber |-> InvoiceNumberText, itemQuantity |-> <<>>,
                 itemPrice |-> ItemPriceText] : ps \in ProductPieceLists, r \in ProductRecipients}
  /\ output = [pc |-> "call", first |-> <<>>, second |-> <<>>]

SpecProduct == InitProduct /\ [][NextTags]_vars

(* ------------------------- the gate on its own -------------------------- *)
\* hyperlinks of the bodies explored
Link(href) == [hidden |-> FALSE, text |-> "go", link |-> <<href>>]
Anchor == [hidden |-> FALSE, text |-> "top", link |-> <<>>]

HrefBitly == Href("https", <<"b", "i", "t", ".", "l", "y">>, <<>>, 0)                  \* https://bit.ly/xyz
HrefBitlyUpper == Href("https", <<"B", "I", "T", ".", "L", "Y">>, <<>>, 0)             \* https://BIT.LY/xyz
HrefBare == Href("", <<"b", "i", "t", ".", "l", "y">>, <<>>, 0)                        \* bit.ly/xyz
HrefExample == Href("https", <<"e", "x", "a", "m", "p", "l", "e", ".", "c", "o", "m">>, <<>>, 0)           \* https://example.com/page
HrefMicrosoft == Href("https", <<"m", "i", "c", "r", "o", "s", "o", "f", "t", ".", "c", "o", "m">>, <<>>, 0)       \* https://microsoft.com/page
HrefRedirect ==                                                \* https://example.com/?next=/home
  Href("https", <<"e", "x", "a", "m", "p", "l", "e", ".", "c", "o", "m">>, <<[key |-> "next", valueHttp |-> FALSE]>>, 0)
HrefEncoded == Href("https", <<"e", "x", "a", "m", "p", "l", "e", ".", "c", "o", "m">>, <<>>, 3)           \* three times %25
HrefFragment == Href("#", <<>>, <<>>, 0)                       \* #top

GateBodies ==
  { <<>>, <<Plain>>, <<Cloaked>>, <<Anchor>>,
    <<Link(HrefBitly)>>, <<Link(HrefBitlyUpper)>>, <<Link(HrefBare)>>,
    <<Link(HrefExample)>>, <<Link(HrefMicrosoft)>>, <<Link(HrefRedirect)>>,
    <<Link(HrefEncoded)>>, <<Link(HrefFragment)>>,
    <<Plain, Link(HrefExample), Link(HrefBitly)>> }

GatePools == { <<>>, <<"a@x.com">> }

\* answers of the lookup of the sender's domain
SpfAnswers ==
  { Answer(<<<<<<"v", "=", "s", "p", "f", "1", " ", "-", "a", "l", "l">>>>>>),
    Answer(<<<<<<"s", "i", "t", "e", "-", "i", "d", "=", "7">>>>, <<<<"v", "=", "s", "p">>, <<"f", "1", " ", "-", "a", "l", "l">>>>>>),
    Answer(<<<<<<"s", "i", "t", "e", "-", "i", "d", "=", "7">>>>>>),
    Answer(<<<<<<"x", " ", "v", "=", "s", "p", "f", "1", " ", "-", "a", "l", "l">>>>>>),
    Answer(<<<<<<"V", "=", "S", "P", "F", "1", " ", "-", "a", "l", "l">>>>>>),
    Answer(<<>>),
    Throws("ENOTFOUND"), Throws("ENODATA"), Throws("ETIMEOUT"), Throws("ESERVFAIL") }

\* answers of the lookup of _dmarc.<domain>
DmarcAnswers ==
  { Answer(<<<<<<"v", "=", "D", "M", "A", "R", "C", "1", ";", " ", "p", "=", "n", "o", "n", "e">>>>>>),
    Answer(<<<<<<"v", "=", "d", "m", "a", "r", "c", "1", ";", " ", "p", "=", "n", "o", "n", "e">>>>>>),
    Answer(<<<<<<"p", "=", "n", "o", "n", "e", ";", " ", "v", "=", "D", "M", "A", "R", "C", "1">>>>>>),
    Throws("ENOTFOUND"), Throws("ENODATA"), Throws("ETIMEOUT") }

\* everything but the request and the resolver's answers is as Init leaves it
InitGate ==
  /\ jobs = <<>>
  /\ waitQ = <<>>
  /\ nextId = 0
  /\ liveLogs = EmptyLog
  /\ pausedTtl = [s \in Senders |-> 0]
  /\ w = Idle
  /\ runs = 0
  /\ created = 0
  /\ store = <<>>
  /\ input \in [emailBody : GateBodies, senderPool : GatePools,
                spf : SpfAnswers, dmarc : DmarcAnswers]
  /\ output = [pc |-> "call"]

\* the request passes segMiddleware; beside its answer, what the link scan
\* and the infrastructure check returned to it
PreFlight ==
  LET primary == IF input.senderPool # <<>> THEN input.senderPool[1] ELSE Null
      spf == resolveTxt(input.spf, PrefixSpf)
      dmarc == resolveTxt(input.dmarc, PrefixDmarc)
  IN /\ output.pc = "call"
     /\ output' = [pc |-> "done",
                   gate |-> segMiddleware(input.emailBody, input.senderPool, spf, dmarc),
                   cloaking |-> scanHtmlDomForCloaking(input.emailBody),
                   links |-> scanLinkIntegrity(input.emailBody),
                   infra |-> verifyInfrastructure(primary, spf, dmarc)]
     /\ UNCHANGED <<jobs, waitQ, nextId, liveLogs, pausedTtl, w, runs, created, store, input>>

NextGate == PreFlight

SpecGate == InitGate /\ [][NextGate]_vars

(* ---------------------- the job log of the status ---------------------- *)
\* getJobs(types, start, end, asc): end is the index of the last job returned
PageStart == 0
PageEnd == 20
\* .slice(0, 20)
LogLimit == 20

\* The finished jobs of the queue are kept in input, in the order they
\* finished: the k-th is the job with finishedOn = k, and input[k] is the set
\* it was moved to
finishedJob(k) == [finishedOn |-> k, st |-> input[k]]

\* the completed or the failed set, which Redis keeps sorted by finishedOn
finishedSet(type) ==
  SelectSeq([k \in 1..Len(input) |-> finishedJob(k)], LAMBDA job : job.st = type)

Reverse(seq) == [k \in 1..Len(seq) |-> seq[Len(seq) + 1 - k]]

\* Array.prototype.slice(start, end)
slice(seq, start, end) ==
  SubSeq(seq, start + 1, IF end < Len(seq) THEN end ELSE Len(seq))

\* a range of one set: oldest first when asc, newest first otherwise
getJobs(type, start, end, asc) ==
  slice(IF asc THEN finishedSet(type) ELSE Reverse(finishedSet(type)), start, end + 1)

\* job.finishedOn || job.processedOn || job.timestamp
timeOf(job) == job.finishedOn

\* .sort((a, b) => timeB - timeA)
sortNewestFirst(list) ==
  [k \in 1..Len(list) |->
     list[CHOOSE a \in 1..Len(list) :
            Cardinality({b \in 1..Len(list) :
                           \/ timeOf(list[b]) > timeOf(list[a])
                           \/ (timeOf(list[b]) = timeOf(list[a]) /\ b < a)}) = k - 1]]

\* the logs of the answer
statusLogs ==
  slice(sortNewestFirst(getJobs("completed", PageStart, PageEnd, TRUE)
                          \o getJobs("failed", PageStart, PageEnd, TRUE)),
        0, LogLimit)

InitStatus ==
  /\ jobs = <<>>
  /\ waitQ = <<>>
  /\ nextId = 0
  /\ liveLogs = EmptyLog
  /\ pausedTtl = [s \in Senders |-> 0]
  /\ w = Idle
  /\ runs = 0
  /\ created = 0
  /\ store = <<>>
  /\ input = <<>>
  /\ output = [pc |-> "none", logs |-> <<>>]

\* a job's run ends: the worker moves it to completed or to failed
Finish(type) ==
  /\ Len(input) < MaxFinished
  /\ type = "failed" => Len(finishedSet("failed")) < MaxFailed
  /\ input' = Append(input, type)
  /\ output' = [pc |-> "none", logs |-> <<>>]
  /\ UNCHANGED <<jobs, waitQ, nextId, liveLogs, pausedTtl, w, runs, created, store>>

\* GET /api/dispatch-status answers
StatusLogs ==
  /\ output.pc = "none"
  /\ output' = [pc |-> "answered", logs |-> statusLogs]
  /\ UNCHANGED <<jobs, waitQ, nextId, liveLogs, pausedTtl, w, runs, created, store, input>>

NextStatus ==
  \/ \E type \in {"completed", "failed"} : Finish(type)
  \/ StatusLogs

SpecStatus == InitStatus /\ [][NextStatus]_vars

(* ------------------------ the telemetry stream -------------------------- *)
\* one completed call of emitLiveLog, here by the first job
Emit ==
  /\ liveLogs.emitted < MaxEmits
  /\ liveLogs' = emitLiveLog(liveLogs, 1, "Generating PDF Attachment...", "info")
  /\ UNCHANGED <<jobs, waitQ, nextId, pausedTtl, w, runs, created, store, input, output>>

NextTelemetry ==
  \/ Emit
  \/ \E n \in 0..MaxBatch, s \in Submissions : Dispatch(n, s)
  \/ Status

SpecTelemetry == Init /\ [][NextTelemetry]_vars

(* ------------- the telemetry stream, command by command ---------------- *)
\* emitLiveLog sends rpush, awaits its reply and sends ltrim; the status
\* handler's lrange may reach Redis between the two.  input holds where the
\* call of emitLiveLog is, output the liveLogs of the last status answer.
InitEmit ==
  /\ jobs = <<>>
  /\ waitQ = <<>>
  /\ nextId = 0
  /\ liveLogs = EmptyLog
  /\ pausedTtl = [s \in Senders |-> 0]
  /\ w = Idle
  /\ runs = 0
  /\ created = 0
  /\ store = <<>>
  /\ input = [pc |-> "rpush"]
  /\ output = [pc |-> "none", liveLogs |-> <<>>]

\* connection.rpush('live_dispatch_logs', logEntry)
Rpush ==
  /\ input.pc = "rpush"
  /\ liveLogs.emitted < MaxEmits
  /\ liveLogs' = [list |-> Append(liveLogs.list,
                                  [seq |-> liveLogs.emitted + 1, jobId |-> 1,
                                   message |-> "Generating PDF Attachment...",
                                   type |-> "info"]),
                  emitted |-> liveLogs.emitted + 1]
  /\ input' = [pc |-> "ltrim"]
  /\ output' = [pc |-> "none", liveLogs |-> <<>>]
  /\ UNCHANGED <<jobs, waitQ, nextId, pausedTtl, w, runs, created, store>>

\* connection.ltrim('live_dispatch_logs', -100, -1)
Ltrim ==
  /\ input.pc = "ltrim"
  /\ liveLogs' = [liveLogs EXCEPT !.list = ltrim(liveLogs.list)]
  /\ input' = [pc |-> "rpush"]
  /\ UNCHANGED <<jobs, waitQ, nextId, pausedTtl, w, runs, created, store, output>>

\* connection.lrange('live_dispatch_logs', 0, -1)
lrange(list) == list

\* GET /api/dispatch-status answers with the list as it is now
StatusRead ==
  /\ output' = [pc |-> "answered", liveLogs |-> lrange(liveLogs.list)]
  /\ UNCHANGED <<jobs, waitQ, nextId, liveLogs, pausedTtl, w, runs, created, store, input>>

NextEmit ==
  \/ Rpush
  \/ Ltrim
  \/ StatusRead

SpecEmit == InitEmit /\ [][NextEmit]_vars

(* ------------------------- rendering sessions --------------------------- *)
\* The headless browsers of the worker's render block and of the preview
\* endpoint.  input counts the renders begun by each; output holds, for each,
\* where its block is (pc), its local `browser` (TRUE when it holds one), how
\* the last render left the block (exit) and the browsers it launched that
\* are still running (open).
RenderOutcomes == {"ok", "timeout", "crash"}

NoSession == [pc |-> "idle", browser |-> FALSE, exit |-> "none", open |-> 0]

InitRender ==
  /\ jobs = <<>>
  /\ waitQ = <<>>
  /\ nextId = 0
  /\ liveLogs = EmptyLog
  /\ pausedTtl = [s \in Senders |-> 0]
  /\ w = Idle
  /\ runs = 0
  /\ created = 0
  /\ store = <<>>
  /\ input = [worker |-> 0, preview |-> 0]
  /\ output = [worker |-> NoSession, preview |-> NoSession]

RenderFrame == UNCHANGED <<jobs, waitQ, nextId, liveLogs, pausedTtl, w, runs, created, store>>

\* worker: browser = await puppeteer.launch(...), inside the try
WorkerLaunch(launched) ==
  /\ output.worker.pc = "idle"
  /\ input.worker < MaxRenders
  /\ input' = [input EXCEPT !.worker = @ + 1]
  /\ output' = [output EXCEPT !.worker =
                  IF launched
                    THEN [@ EXCEPT !.pc = "page", !.browser = TRUE, !.open = @ + 1,
                                   !.exit = "none"]
                    ELSE [@ EXCEPT !.pc = "catch", !.exit = "launch"]]
  /\ RenderFrame

\* worker: newPage, setContent and pdf, each bounded by its timeout
WorkerRender(outcome) ==
  /\ output.worker.pc = "page"
  /\ output' = [output EXCEPT !.worker.pc = IF outcome = "ok" THEN "finally" ELSE "catch",
                              !.worker.exit = outcome]
  /\ input' = input
  /\ RenderFrame

\* worker: catch (pdfError) logs and throws the wrapped error
WorkerCatch ==
  /\ output.worker.pc = "catch"
  /\ output' = [output EXCEPT !.worker.pc = "finally"]
  /\ input' = input
  /\ RenderFrame

\* worker: finally { if (browser) await browser.close() }
closeIfHeld(session) ==
  [session EXCEPT !.pc = "idle", !.browser = FALSE,
                  !.open = IF session.browser THEN @ - 1 ELSE @]

WorkerFinally ==
  /\ output.worker.pc = "finally"
  /\ output' = [output EXCEPT !.worker = closeIfHeld(@)]
  /\ input' = input
  /\ RenderFrame

\* preview: const browser = await puppeteer.launch(...)
PreviewLaunch(launched) ==
  /\ output.preview.pc = "idle"
  /\ input.preview < MaxRenders
  /\ input' = [input EXCEPT !.preview = @ + 1]
  /\ output' = [output EXCEPT !.preview =
                  IF launched
                    THEN [@ EXCEPT !.pc = "page", !.browser = TRUE, !.open = @ + 1,
                                   !.exit = "none"]
                    ELSE [@ EXCEPT !.pc = "catch", !.exit = "launch"]]
  /\ RenderFrame

\* preview: newPage, setContent and pdf
PreviewRender(outcome) ==
  /\ output.preview.pc = "page"
  /\ output' = [output EXCEPT !.preview.pc = IF outcome = "ok" THEN "close" ELSE "catch",
                              !.preview.exit = outcome]
  /\ input' = input
  /\ RenderFrame

\* preview: await browser.close(), then the answer with the document
PreviewClose ==
  /\ output.preview.pc = "close"
  /\ output' = [output EXCEPT !.preview.pc = "idle", !.preview.browser = FALSE,
                              !.preview.open = @ - 1]
  /\ input' = input
  /\ RenderFrame

\* preview: catch (error) answers 500; `browser` goes out of scope
PreviewCatch ==
  /\ output.preview.pc = "catch"
  /\ output' = [output EXCEPT !.preview.pc = "idle", !.preview.browser = FALSE]
  /\ input' = input
  /\ RenderFrame

NextRender ==
  \/ \E launched \in BOOLEAN : WorkerLaunch(launched)
  \/ \E outcome \in RenderOutcomes : WorkerRender(outcome)
  \/ WorkerCatch
  \/ WorkerFinally
  \/ \E launched \in BOOLEAN : PreviewLaunch(launched)
  \/ \E outcome \in RenderOutcomes : PreviewRender(outcome)
  \/ PreviewClose
  \/ PreviewCatch

SpecRender == InitRender /\ [][NextRender]_vars

(* ------------------------------ properties ----------------------------- *)
FailedWith(reason) ==
  \E id \in DOMAIN jobs : jobs[id].st = "failed" /\ jobs[id].failedReason = reason

\* the step is the rest of the catch block of a failed send
CaughtStep == w.pc = "caught" /\ w'.pc # "caught"

\* the job the worker is running is recorded as failed with this reason
FailsWith(reason) ==
  w.live => /\ w.job \in DOMAIN jobs'
            /\ jobs'[w.job].st = "failed"
            /\ jobs'[w.job].failedReason = reason

\* C1: at most one job is active, and the active job is the one the worker's
\* processor is running: while the processor is rendering, sending or waiting
\* out its throttle delay no other job is started, whatever requests interleave.
SingleActiveJob ==
  /\ Cardinality(JobsIn("active")) <= 1
  /\ JobsIn("active") # {} =>
       w.pc # "idle" /\ w.live /\ JobsIn("active") = {w.job}

\* a job sits in its throttle delay while another one waits
WaitsBehindThrottle ==
  w.pc = "throttle" /\ JobsIn("active") = {w.job} /\ JobsIn("waiting") # {}

\* C2: while the pause flag of a sender is set (its hour has not run out) no
\* job renders for or sends through that sender.
PausedSenderNotUsed ==
  \A s \in Senders :
    pausedTtl[s] > 0 => ~(w.pc \in {"render", "send"} /\ w.selected = s)

\* a job has skipped a paused candidate and sends through the next one
SendsAfterSkip == w.pc = "send" /\ w.skipped # <<>>

\* C3: a submission enqueues jobs only if the gate ran all its checks on it and
\* raised no flag; a submission the gate rejects or fails on enqueues nothing.
GateBeforeEnqueue ==
  [][\A n \in 0..MaxBatch, s \in Submissions :
       Dispatch(n, s) =>
         LET gate == segMiddleware(s.emailBody, s.senderPool, s.spf, s.dmarc)
         IN /\ jobs' # jobs => gate.ran /\ gate.flags = <<>>
            /\ gate.status # "next" => jobs' = jobs /\ waitQ' = waitQ]_vars

\* C4: after a clear a status query reports zero waiting, active, completed
\* and failed jobs and an empty telemetry list.
ClearEmptiesStatus ==
  [][(\E t \in BOOLEAN : Clear(t)) =>
       /\ dispatchStatus'.counts =
            [waiting |-> 0, active |-> 0, completed |-> 0, failed |-> 0]
       /\ dispatchStatus'.liveLogs = <<>>]_vars

\* C5: when the last candidate's send fails with a rate-limit-shaped error as
\* every earlier attempt of the job did, the job fails with the reason that
\* names pool exhaustion, and the pause flag of the sender just attempted is
\* set (those of the earlier ones were set when their sends failed).
ExhaustedByRateLimits ==
  [][(CaughtStep /\ IsRateLimitMsg(w.lastError) /\ w'.pc = "idle") =>
       /\ FailsWith(AllPausedMsg)
       /\ pausedTtl'[w.selected] > 0]_vars

\* C6: when every candidate of the pool is found paused, the job has rendered
\* nothing and sent nothing, sets no pause flag and fails with the dedicated
\* all-senders-paused error.
AllPausedFails ==
  [][(/\ w.pc = "check" /\ w'.pc = "idle" /\ w.pool # <<>>
      /\ w.i = Len(w.pool) - 1 /\ Len(w.skipped) = w.i
      /\ candidateSender(w.job, w.i, w.pool) # Null
      /\ isPaused(candidateSender(w.job, w.i, w.pool))) =>
       /\ w.renders = 0
       /\ w.sent = <<>>
       /\ pausedTtl' = pausedTtl
       /\ FailsWith(AllPausedMsg)]_vars

\* a job has failed with the all-senders-paused error
FailedAllPaused == FailedWith(AllPausedMsg)

\* C7: after a send failure of the rate-limit class the flag of exactly the
\* sender just used is set to expire in one hour, and when a candidate is left
\* the same job goes on with the next one: it is neither failed nor requeued.
RateLimitPausesAndRotates ==
  [][(CaughtStep /\ IsRateLimitMsg(w.lastError)) =>
       /\ pausedTtl' = [pausedTtl EXCEPT ![w.selected] = 3600]
       /\ w.i + 1 < Len(w.pool) =>
            /\ w'.pc = "check" /\ w'.job = w.job /\ w'.i = w.i + 1
            /\ jobs' = jobs /\ waitQ' = waitQ]_vars

\* a job is at its next candidate after a rate-limited send, its record intact
RotatedAfterRateLimit ==
  /\ w.pc = "check" /\ w.i > 0 /\ w.flagged # {} /\ w.live
  /\ jobs[w.job].st = "active"
  /\ \A s \in w.flagged : isPaused(s)

\* C8: after a send failure outside the rate-limit class the job fails at
\* once with that error as its reason: the processor stops (no further
\* candidate) and no pause flag changes.
FatalSendFailsJob ==
  [][(CaughtStep /\ ~IsRateLimitMsg(w.lastError)) =>
       /\ w'.pc = "idle"
       /\ pausedTtl' = pausedTtl
       /\ FailsWith(w.lastError)]_vars

\* a job has failed with a provider's error that is not of the rate-limit class
FailedFatally == FailedWith(MsgNoUser) /\ \A s \in Senders : ~isPaused(s)

\* C9: a render ends with the document or with the job failed: on a render
\* failure the processor stops (no send through any remaining candidate), no
\* pause flag changes and the job's reason carries the renderer's message.
RenderFailureIsFatal ==
  [][(w.pc = "render" /\ w'.pc # "render") =>
       \/ w'.pc = "send" /\ jobs' = jobs
       \/ /\ w'.pc = "idle"
          /\ pausedTtl' = pausedTtl
          /\ w.live => /\ w.job \in DOMAIN jobs'
                       /\ jobs'[w.job].st = "failed"
                       /\ \E m \in RenderErrors :
                            Includes(jobs'[w.job].failedReason, m)]_vars

\* a job has failed on its render
FailedOnRender == \E m \in RenderErrors : FailedWith(PuppeteerMsg(m))

\* C10: the first candidate of a job is the pool member at (job id mod pool
\* size), and over any N consecutive job ids the start offsets of a pool of
\* size N are pairwise distinct and cover the pool.
StartOffsetByJobId ==
  /\ (w.pc = "render" /\ w.skipped = <<>> /\ w.sent = <<>>) =>
       w.selected = w.pool[(w.job % Len(w.pool)) + 1]
  /\ \A N \in 1..(MaxJobs + 1), k \in 0..MaxJobs :
       /\ {senderIndex(k + d, 0, N) : d \in 0..(N - 1)} = 0..(N - 1)
       /\ \A d, e \in 0..(N - 1) :
            senderIndex(k + d, 0, N) = senderIndex(k + e, 0, N) => d = e

\* job 1 starts a pool of two at its second member
StartsAtSecondSender ==
  /\ w.pc = "render" /\ w.job = 1 /\ w.sent = <<>> /\ w.skipped = <<>>
  /\ w.pool = <<"a@x.com", "b@x.com">> /\ w.selected = "b@x.com"

\* C12: the telemetry stream is the most recent min(k, 100) of the k events
\* emitted since the list was last deleted, in emission order.
StreamIsRecentTail ==
  LET k == liveLogs.emitted
      m == IF k < LogCap THEN k ELSE LogCap
  IN /\ Len(liveLogs.list) = m
     /\ \A i \in 1..m : liveLogs.list[i].seq = k - m + i

\* more events were emitted than the list holds
EvictedOldest ==
  /\ liveLogs.emitted > LogCap
  /\ Len(liveLogs.list) = LogCap
  /\ liveLogs.list[1].seq > 1

\* C13: an accepted submission (the only step that enqueues jobs) leaves the
\* telemetry stream empty, so that the stream holds only what is emitted after
\* it; a submission that is rejected by the gate or by validation enqueues
\* nothing and leaves the stream as it was.
DispatchResetsStream ==
  [][IF created' # created
       THEN liveLogs' = EmptyLog
       ELSE \/ liveLogs' = liveLogs
            \/ ~ (w' = w /\ \E n \in 0..MaxBatch, s \in Submissions : Dispatch(n, s))]_vars

\* a job that had announced itself runs on after a submission emptied the stream
StreamEmptiedMidJob ==
  /\ w.pc = "render"
  /\ liveLogs.list = <<>>
  /\ waitQ # <<>>

Terminal == {"completed", "failed"}

\* C11: an accepted batch of n recipients adds exactly n jobs; with every
\* external call returning and neither clear nor retry invoked, each job
\* eventually is completed or failed and stays so (no job is ever dropped,
\* a final state is never left, and again and again every job there is has
\* reached one), and the completed and failed counts of the status query
\* never decrease.
BatchRunsToTerminal ==
  /\ [][\A n \in 0..MaxBatch, s \in Submissions :
          (created' # created /\ Dispatch(n, s)) =>
             /\ Cardinality(DOMAIN jobs' \ DOMAIN jobs) = n
             /\ \A id \in DOMAIN jobs' \ DOMAIN jobs : jobs'[id].st = "waiting"]_vars
  /\ [][\A id \in DOMAIN jobs :
          /\ id \in DOMAIN jobs'
          /\ jobs[id].st \in Terminal => jobs'[id].st = jobs[id].st]_vars
  /\ []<>(\A id \in DOMAIN jobs : jobs[id].st \in Terminal)
  /\ [][/\ dispatchStatus'.counts.completed >= dispatchStatus.counts.completed
        /\ dispatchStatus'.counts.failed >= dispatchStatus.counts.failed]_vars

\* two jobs have run to their end, one completed and one failed
BatchEndedBothWays ==
  /\ created = 2
  /\ nextId = 2
  /\ \E a, b \in DOMAIN jobs : jobs[a].st = "completed" /\ jobs[b].st = "failed"

\* C14: no step of a job whose delivery method is attachment writes to the
\* document store, whether it sends, rotates to another sender or fails.
AttachmentNeverPersists ==
  [][(w.deliveryMethod = "attachment" /\ w' # w) => store' = store]_vars

\* an attachment job has rendered again after a rotation and stored nothing
AttachmentRotatedUnstored ==
  /\ w.deliveryMethod = "attachment"
  /\ w.pc = "send"
  /\ w.renders = 2
  /\ store = <<>>

\* C15: a link-mode job's document is in the store only once the job has
\* reached Success: a failed send attempt and a job that ends failed leave no
\* document under the job's invoice number.
LinkPersistsOnSuccessOnly ==
  [][/\ (w.deliveryMethod = "link" /\ w.pc = "send" /\ w'.pc = "caught") =>
          w.invoiceNumber \notin DOMAIN store'
     /\ (w.deliveryMethod = "link" /\ w.live /\ w.job \in DOMAIN jobs'
           /\ jobs[w.job].st = "active" /\ jobs'[w.job].st = "failed") =>
          w.invoiceNumber \notin DOMAIN store']_vars

\* C16: fetching by invoice number answers with the stored document exactly
\* for the numbers that hold one, and with not-found for every other number;
\* a number holds a document from the moment a link-mode job stores it under
\* its own invoice number, for 30 days; the fetch changes nothing.
FetchReturnsStoredOrNotFound ==
  /\ [](\A id \in InvoiceIds :
          IF id \in DOMAIN store
            THEN /\ getInvoice(id).status = "200"
                 /\ getInvoice(id).pdfBase64 = toBase64(pdfBuffer(id))
                 /\ store[id].ttl \in 1..DocTTL
            ELSE getInvoice(id).status = "404")
  /\ [][/\ store' # store =>
          \A id \in InvoiceIds :
            /\ (id \notin DOMAIN store /\ id \in DOMAIN store') =>
                  /\ w.deliveryMethod = "link" /\ w.invoiceNumber = id
                  /\ store'[id].ttl = DocTTL
            /\ (id \in DOMAIN store /\ id \notin DOMAIN store') =>
                  store[id].ttl <= DocTTL \div 2 /\ HalfDocTTL
     /\ (\E id \in InvoiceIds : Invoice(id)) => UNCHANGED vars]_vars

\* a link-mode job's document can be fetched fifteen days on, an attachment
\* job's number and a number never drawn cannot
FetchedAfterFifteenDays ==
  /\ \E id \in InvoiceIds :
       getInvoice(id).status = "200" /\ store[id].ttl < DocTTL
  /\ \E id \in DOMAIN jobs :
       /\ jobs[id].data.deliveryMethod = "attachment"
       /\ jobs[id].st = "completed"
  /\ getInvoice(MaxRuns + 1).status = "404"

\* C17: the throttle delay is drawn exactly when a send has succeeded and
\* the job is not yet recorded as completed; it lies in 8000..20000 ms, in
\* 25000..45000 ms when the recipient's domain is strict; a job is recorded
\* as completed only after its delay, and a job that fails has none.
ThrottleAfterSuccessOnly ==
  /\ [](IF w.pc = "throttle"
          THEN /\ w.success
               /\ IF w.recipientDomain \in strictDomains
                    THEN w.randomDelay \in 25000..45000
                    ELSE w.randomDelay \in 8000..20000
          ELSE w.randomDelay = 0)
  /\ [][\A id \in DOMAIN jobs \cap DOMAIN jobs' :
          /\ (jobs[id].st = "active" /\ jobs'[id].st = "completed") =>
                w.pc = "throttle" /\ w.job = id /\ w.randomDelay > 0
          /\ (jobs[id].st = "active" /\ jobs'[id].st = "failed") =>
                w.job = id /\ w.randomDelay = 0]_vars

\* the longest delay of each window has been drawn
LongestDelaysDrawn ==
  /\ w.pc = "throttle"
  /\ w.recipientDomain = "yahoo.com"
  /\ w.randomDelay = 45000
  /\ \E id \in DOMAIN jobs : jobs[id].st = "failed"

\* the spans '{' ... '}' of t with no brace inside and, as wanted, a pipe or none
PlainSpans(t, piped) ==
  {<<i, j>> \in (1..Len(t)) \X (1..Len(t)) :
     /\ i < j /\ t[i] = "{" /\ t[j] = "}"
     /\ \A k \in (i + 1)..(j - 1) : t[k] \notin {"{", "}"}
     /\ piped = (\E k \in (i + 1)..(j - 1) : t[k] = "|")}

\* the pipe-free spans of t, from the left
RECURSIVE PipeFreeSpanTexts(_)
PipeFreeSpanTexts(t) ==
  LET spans == PlainSpans(t, FALSE)
  IN IF spans = {} THEN <<>>
     ELSE LET sp == CHOOSE x \in spans : \A y \in spans : x[1] <= y[1]
          IN <<SubSeq(t, sp[1], sp[2])>> \o PipeFreeSpanTexts(SubSeq(t, sp[2] + 1, Len(t)))

\* a is b with some elements left out
RECURSIVE IsSubsequence(_, _)
IsSubsequence(a, b) ==
  IF a = <<>> THEN TRUE
  ELSE IF b = <<>> THEN FALSE
  ELSE IF Head(a) = Head(b) THEN IsSubsequence(Tail(a), Tail(b))
  ELSE IsSubsequence(a, Tail(b))

\* the alternatives of a span's contents: its longest pipe-free stretches
Alternatives(c) ==
  {SubSeq(c, a, b) : <<a, b>> \in
     {<<a, b>> \in (1..(Len(c) + 1)) \X (0..Len(c)) :
        /\ a <= b + 1
        /\ \A k \in a..b : c[k] # "|"
        /\ a = 1 \/ c[a - 1] = "|"
        /\ b = Len(c) \/ c[b + 1] = "|"}}

\* r is t with each of its piped spans replaced by one of the span's alternatives
RECURSIVE ResolvesSpans(_, _)
ResolvesSpans(t, r) ==
  LET spans == PlainSpans(t, TRUE)
  IN IF spans = {} THEN r = t
     ELSE LET sp == CHOOSE x \in spans : \A y \in spans : x[1] <= y[1]
              before == SubSeq(t, 1, sp[1] - 1)
          IN \E alt \in Alternatives(SubSeq(t, sp[1] + 1, sp[2] - 1)) :
               LET n == Len(before) + Len(alt)
               IN /\ n <= Len(r)
                  /\ SubSeq(r, 1, n) = before \o alt
                  /\ ResolvesSpans(SubSeq(t, sp[2] + 1, Len(t)), SubSeq(r, n + 1, Len(r)))

\* C18: the text parseSpintax returns has no span '{' ... '|' ... '}' free of
\* inner braces; every turn of its loop replaces each such span by one of the
\* span's own alternatives; and the pipe-free brace spans of the input are
\* all in the output, unchanged and in their order.
SpintaxResolvesOnlyPipedSpans ==
  /\ [](output.pc = "returned" =>
          /\ PlainSpans(output.result, TRUE) = {}
          /\ IsSubsequence(PipeFreeSpanTexts(input.text), PipeFreeSpanTexts(output.result)))
  /\ [][SpintaxPass => ResolvesSpans(output.result, output'.result)]_vars

\* a piped span beside a pipe-free one has been resolved to its second alternative
SpintaxResolvedBesidePlain ==
  /\ output.pc = "returned"
  /\ input.text = <<"{", "|", "b", "}", "{", "}">>
  /\ output.result = <<"b", "{", "}">>

\* C19: replaceTags applied to its own output, with the same values, returns
\* that output unchanged.
ReplaceTagsIdempotent ==
  output.pc = "twice" => output.second = output.first

\* what a piece stands for once its tag is resolved
Resolved(piece, in) ==
  CASE piece = TagName -> OrElse(in.recipient.Name, DefaultName)
    [] piece = TagEmail -> in.recipient.Email
    [] piece = TagInvoiceNumber -> in.invoiceNumber
    [] OTHER -> piece

RECURSIVE ResolvedText(_, _)
ResolvedText(pieces, in) ==
  IF pieces = <<>> THEN <<>>
  ELSE Resolved(Head(pieces), in) \o ResolvedText(Tail(pieces), in)

\* C20: replaceTags puts the value in the place of each recognized tag and
\* leaves a tag with an unknown keyword, and all the text outside the
\* recognized tags, as they are, also when the unknown tag comes before a
\* recognized one on the same line.
UnknownTagsAndTextKept ==
  output.pc = "once" => output.first = ResolvedText(input.pieces, input)

\* C21: a request that names no sender (the pool is missing or empty) passes
\* the gate without an infrastructure flag: the flags it is answered with are
\* those of the cloaking and the link scan, and it is rejected only when
\* these raised one.
NoSenderSkipsInfrastructure ==
  (output.pc = "done" /\ input.senderPool = <<>> /\ input.emailBody # <<>>)
    => /\ output.gate.flags = output.cloaking \o output.links
       /\ output.gate.status = (IF Len(output.cloaking \o output.links) > 0
                                  THEN "400" ELSE "next")

\* the flags a verdict holds, as a set
FlagsOf(flags) == {flags[k] : k \in 1..Len(flags)}

\* the codes of a lookup that found no domain or no record
NotFoundCodes == {"ENOTFOUND", "ENODATA"}

\* C22: a lookup that fails with ENOTFOUND or ENODATA raises the flag of its
\* check and a lookup that fails with any other error raises none, for the
\* SPF and the DMARC lookup each by its own error whatever the other answers.
LookupErrorsClassified ==
  (output.pc = "done" /\ input.senderPool # <<>>)
    => /\ input.spf.code # ""
            => ("SPF" \in FlagsOf(output.infra) <=> input.spf.code \in NotFoundCodes)
       /\ input.dmarc.code # ""
            => ("DMARC" \in FlagsOf(output.infra) <=> input.dmarc.code \in NotFoundCodes)
       /\ (input.spf.code # "" /\ input.dmarc.code # "")
            => output.infra =
                 (IF input.spf.code \in NotFoundCodes THEN <<"SPF">> ELSE <<>>)
                   \o (IF input.dmarc.code \in NotFoundCodes THEN <<"DMARC">> ELSE <<>>)

\* the SPF lookup found no data and is flagged, the DMARC lookup timed out and
\* is not
FlaggedNoDataBesideTimeout ==
  /\ output.pc = "done" /\ input.senderPool # <<>>
  /\ input.spf.code = "ENODATA" /\ input.dmarc.code = "ETIMEOUT"
  /\ output.infra = <<"SPF">>

\* some record of the answer, its strings put together, has the prefix as
\* its first characters
SomeRecordBegins(answer, prefix) ==
  \E k \in 1..Len(answer.records) :
    LET record == Concat(answer.records[k])
    IN /\ Len(record) >= Len(prefix)
       /\ \A c \in 1..Len(prefix) : record[c] = prefix[c]

NoRecordFlag(begins) == IF begins THEN <<>> ELSE <<"Infrastructure Hijacking">>

\* C23: when the lookups of a sender's domain answer, the SPF check raises
\* its flag exactly when no TXT record of the domain begins with v=spf1 and
\* the DMARC check raises its flag exactly when no TXT record of
\* _dmarc.<domain> begins with v=DMARC1.
RecordsDecideFlags ==
  LET spfBegins == SomeRecordBegins(input.spf, PrefixSpf)
      dmarcBegins == SomeRecordBegins(input.dmarc, PrefixDmarc)
      raised == "Infrastructure Hijacking" \in FlagsOf(output.infra)
  IN (output.pc = "done" /\ input.senderPool # <<>>)
       => /\ (input.spf.code = "" /\ (input.dmarc.code # "" \/ dmarcBegins))
               => (raised <=> ~spfBegins)
          /\ (input.dmarc.code = "" /\ (input.spf.code # "" \/ spfBegins))
               => (raised <=> ~dmarcBegins)
          /\ (input.spf.code = "" /\ input.dmarc.code = "")
               => output.infra = NoRecordFlag(spfBegins) \o NoRecordFlag(dmarcBegins)

\* an SPF record delivered in two strings passes, a DMARC record that spells
\* its version in lower case is flagged
SplitRecordPassesLowerCaseFlagged ==
  /\ output.pc = "done" /\ input.senderPool # <<>>
  /\ input.spf.code = "" /\ Len(input.spf.records) = 2 /\ Len(input.spf.records[2]) = 2
  /\ input.dmarc.code = "" /\ input.dmarc.records[1][1][3] = "d"
  /\ output.infra = <<"Infrastructure Hijacking">>

\* C24: the link scan raises the shortener flag exactly when the body holds a
\* hyperlink whose host is one of the shortener domains of the list.
ShortenerFlagIffListedHost ==
  output.pc = "done"
    => ("Link Cloaking" \in FlagsOf(output.links)
          <=> \E k \in 1..Len(input.emailBody) :
                /\ input.emailBody[k].link # <<>>
                /\ lowerCased(input.emailBody[k].link[1].host) \in publicShorteners)

\* the positions of the wait list, as a set of job ids
Waiting(q) == {q[k] : k \in 1..Len(q)}

\* C25: retry puts every failed job back on the wait list with its data as
\* it was, to be run again from the first sender of its rotation, and leaves
\* every other job, the order of the jobs already waiting, the job in
\* flight and the pause flags as they were.
RetryRequeuesFailedOnly ==
  /\ [][Retry =>
          /\ DOMAIN jobs' = DOMAIN jobs
          /\ \A id \in DOMAIN jobs :
                IF jobs[id].st = "failed"
                  THEN /\ jobs'[id].st = "waiting"
                       /\ jobs'[id].data = jobs[id].data
                       /\ id \in Waiting(waitQ') \ Waiting(waitQ)
                  ELSE jobs'[id] = jobs[id]
          /\ SubSeq(waitQ', 1, Len(waitQ)) = waitQ
          /\ Len(waitQ') = Len(waitQ) + Cardinality(JobsIn("failed"))
          /\ w' = w
          /\ pausedTtl' = pausedTtl]_vars
  /\ [][(w.pc = "idle" /\ w'.pc # "idle")
          => /\ w'.pc = "check" /\ w'.i = 0 /\ w'.sent = <<>>
             /\ jobs[w'.job].st = "waiting"
             /\ w'.pool = jobs[w'.job].data.senderPool]_vars

\* the only job ever enqueued has run, failed with its sender paused and
\* waits again, the pause flag still set
RetriedWaitsWithPauseKept ==
  /\ created = 1 /\ runs = 1 /\ w.pc = "idle"
  /\ DOMAIN jobs = {1} /\ jobs[1].st = "waiting" /\ waitQ = <<1>>
  /\ pausedTtl["a@x.com"] > 0

StatusLogsNewestTwenty ==
  LET n == Len(input)
      shown == IF n < 20 THEN n ELSE 20
  IN output.pc = "answered"
       => /\ Len(output.logs) = shown
          /\ \A k \in 1..shown : output.logs[k] = finishedJob(n + 1 - k)

\* a submission without recipients or without senders
Invalid(n, s) == n = 0 \/ s.senderPool = <<>>

\* C28: a submission whose recipient list or sender pool is missing or empty
\* is answered with an error, and it changes nothing: no job is enqueued
\* (every job enqueued has senders) and the telemetry list is not deleted
\* (a step that changes the list without enqueuing is not such a submission).
InvalidSubmissionRejected ==
  /\ \A n \in 0..MaxBatch, s \in Submissions :
       Invalid(n, s) =>
         dispatchResponse(n, s.emailBody, s.senderPool, s.spf, s.dmarc).status
           \in {"400", "500"}
  /\ [][/\ (created' # created
             => \A id \in DOMAIN jobs' :
                  (id \notin DOMAIN jobs \/ jobs'[id] # jobs[id])
                    => jobs'[id].data.senderPool # <<>>)
        /\ ((created' = created /\ w' = w /\ liveLogs' # liveLogs)
             => ~ \E n \in 0..MaxBatch, s \in Submissions :
                    Invalid(n, s) /\ Dispatch(n, s))]_vars

\* a job waits, the telemetry list holds events of an earlier job and a
\* further submission would fit: one without recipients and one without
\* senders are answered with an error
InvalidRefusedWhileBatchRuns ==
  /\ liveLogs.list # <<>> /\ JobsIn("waiting") # {} /\ created < MaxJobs
  /\ \E s \in Submissions :
       /\ s.senderPool # <<>> /\ s.emailBody # <<>>
       /\ dispatchResponse(0, s.emailBody, s.senderPool, s.spf, s.dmarc).status = "400"
       /\ dispatchResponse(1, s.emailBody, s.senderPool, s.spf, s.dmarc).status = "200"
  /\ \E s \in Submissions :
       /\ s.senderPool = <<>>
       /\ dispatchResponse(1, s.emailBody, s.senderPool, s.spf, s.dmarc).status = "400"

\* C29: a job recorded as failed is not run again by itself: its record
\* stays as it is through every step but a retry or a clear, and the job the
\* worker is busy with is never a failed one.
FailedStaysFailed ==
  /\ [][(\A id \in DOMAIN jobs :
           jobs[id].st = "failed" => (id \in DOMAIN jobs' /\ jobs'[id] = jobs[id]))
          \/ Retry
          \/ \E t \in BOOLEAN : Clear(t)]_vars
  /\ [](w.pc # "idle" => (w.job \notin DOMAIN jobs \/ jobs[w.job].st # "failed"))

\* the first job has failed, the worker has gone on to the second and
\* completed it, and the first is still failed
FailedLeftBehind ==
  /\ DOMAIN jobs = {1, 2} /\ jobs[1].st = "failed" /\ jobs[2].st = "completed"
  /\ w.pc = "idle" /\ waitQ = <<>> /\ runs = 2

\* C30: a status query answers with at most 100 telemetry events, also when
\* it reads the list between the append and the trim of an emit.
StatusAtMostLogCap ==
  output.pc = "answered" => Len(output.liveLogs) <= LogCap

\* C31: a job whose send failed with a rate-limit-shaped error and then
\* went through a later candidate is not failed: while it runs its record
\* stays active, every sender it failed on is paused for the hour when the
\* failure is handled, and it ends completed with the sender that succeeded,
\* none of those it failed on, as its result.
TransientFailureNotSurfaced ==
  /\ [](w.pc # "idle" /\ w.live /\ w.flagged # {}
          => jobs[w.job].st = "active" /\ jobs[w.job].failedReason = NoError)
  /\ [][(w.pc # "idle" /\ w'.pc # "idle" /\ w'.flagged # w.flagged)
          => /\ w'.flagged = w.flagged \cup {w.selected}
             /\ pausedTtl'[w.selected] = PauseTTL]_vars
  /\ [][(w.pc = "throttle" /\ w'.pc = "idle" /\ w.live /\ w.flagged # {})
          => /\ jobs'[w.job].st = "completed"
             /\ jobs'[w.job].failedReason = NoError
             /\ jobs'[w.job].returnvalue.sender = w.selected
             /\ w.selected \notin w.flagged
             /\ w.sent[Len(w.sent)] = w.selected
             /\ \A k \in 1..(Len(w.sent) - 1) : w.sent[k] \in w.flagged]_vars

\* the only job run sent through a@x.com after its send through b@x.com was
\* rate-limited: it is completed with a@x.com as its result and b@x.com is
\* paused
CompletedThroughSecondSender ==
  /\ runs = 1 /\ created = 1 /\ w.pc = "idle"
  /\ DOMAIN jobs = {1} /\ jobs[1].st = "completed"
  /\ jobs[1].returnvalue.sender = "a@x.com"
  /\ pausedTtl["b@x.com"] > 0 /\ pausedTtl["a@x.com"] = 0

\* the pool position of the k-th turn (k from 0) of the job's rotation
RotationPosition(k) == ((w.job + k) % Len(w.pool)) + 1

\* the turns of the rotation in which the senders of a list were examined
TurnsOf(list) ==
  [n \in 1..Len(list) |->
     CHOOSE k \in 0..(Len(w.pool) - 1) : w.pool[RotationPosition(k)] = list[n]]

Increasing(seq) == \A a, b \in 1..Len(seq) : a < b => seq[a] < seq[b]

\* C32: within one job the candidates are examined in the order offset,
\* offset + 1, ... modulo the pool size: the senders skipped and those sent
\* through so far are, each once, the candidates of the first turns in turn
\* order, never more than the pool holds; the sender in hand is the candidate
\* of the current turn, and it is sent through only when every earlier send
\* of the job has failed and been handled.
RotationInOrder ==
  (w.pc # "idle" /\ w.pool # <<>>) =>
    LET examined == Len(w.skipped) + Len(w.sent)
        turns == {TurnsOf(w.skipped)[n] : n \in 1..Len(w.skipped)}
                   \cup {TurnsOf(w.sent)[n] : n \in 1..Len(w.sent)}
    IN /\ w.i <= Len(w.pool) /\ examined <= Len(w.pool)
       /\ \A n \in 1..Len(w.skipped) : \E k \in 1..Len(w.pool) : w.pool[k] = w.skipped[n]
       /\ \A n \in 1..Len(w.sent) : \E k \in 1..Len(w.pool) : w.pool[k] = w.sent[n]
       /\ Increasing(TurnsOf(w.skipped)) /\ Increasing(TurnsOf(w.sent))
       /\ turns = 0..(examined - 1)
       /\ examined = IF w.pc \in {"caught", "throttle"} THEN w.i + 1 ELSE w.i
       /\ w.pc \in {"render", "send", "caught", "throttle"}
            => /\ w.i < Len(w.pool)
               /\ w.selected = w.pool[RotationPosition(w.i)]
       /\ w.pc \in {"render", "send"}
            => /\ \A n \in 1..Len(w.sent) : w.sent[n] \in w.flagged
               /\ w.sent # <<>> => IsRateLimitMsg(w.lastError)
               /\ ~w.success

\* a job is sending through the candidate of its second turn after its send
\* through the candidate of the first was rate-limited
SecondTurnAfterFailedFirst ==
  /\ w.pc = "send" /\ w.i = 1 /\ Len(w.pool) = 2
  /\ w.sent = <<w.pool[RotationPosition(0)]>>
  /\ w.selected = w.pool[RotationPosition(1)]

\* C33: whenever a render has left its block, by the worker or by the
\* preview endpoint, with the document, on a timeout or on a crash, no
\* browser it launched is still running.
SessionsReleased ==
  /\ output.worker.pc = "idle" => output.worker.open = 0
  /\ output.preview.pc = "idle" => output.preview.open = 0

\* the deepest nesting of piped spans a text of MaxSpintaxLen characters can
\* hold is MaxSpintaxLen \div 3; a cap below it
IterationCap == (MaxSpintaxLen \div 3) - 1

\* C34: the passes of spintax resolution over a text never exceed an
\* iteration cap that does not grow with the text.
PassesWithinCap == output.passes <= IterationCap

\* each pass takes at least a pair of braces and a pipe out of the text, so
\* the passes are bounded by the length of the text and by nothing else
PassesWithinLength == 3 * output.passes + Len(output.result) <= Len(input.text)

\* the value a piece stands for: the product name for the product tag in any
\* of its spellings, the recipient's name for the name tag, itself otherwise
OwnValue(piece, recipient) ==
  IF piece \in ProductTags THEN OrElse(recipient.Product_Name, DefaultProduct)
  ELSE IF piece = TagName THEN OrElse(recipient.Name, DefaultName)
  ELSE piece

RECURSIVE OwnValues(_, _)
OwnValues(pieces, recipient) ==
  IF pieces = <<>> THEN <<>>
  ELSE OwnValue(Head(pieces), recipient) \o OwnValues(Tail(pieces), recipient)

\* C35: a text of product tags, spelled in any letter case and with a space,
\* an underscore or nothing between the two words, of name tags and of words
\* comes out with every tag replaced by its own value: the product name for
\* {{Product Name}} and {{Product_Name}} alike, never the recipient's name.
TagsTakeOwnValue ==
  output.pc = "once" => output.first = OwnValues(input.pieces, input.recipient)

\* C36: in one execution of a job the content is resolved and the document
\* rendered once, before the first send attempt: the execution never holds a
\* second render, and it is never at its content-and-render step after a send
\* has been tried.
RenderedOncePerExecution ==
  /\ w.renders <= 1
  /\ w.pc = "render" => w.sent = <<>>

\* C37: an execution of a job has one invoice number: it stays the one drawn
\* before the loop through every turn, every turn puts that number in the
\* body, the viewer link and the attachment's file name, a document the
\* execution stores is stored under it, and the result of the completed job
\* carries it.
OneInvoiceNumberPerExecution ==
  [][/\ (w.pc # "idle" /\ w'.pc # "idle")
          => /\ w'.invoiceNumber = w.invoiceNumber
             /\ w'.numbers \subseteq {w.invoiceNumber}
     /\ (w.pc = "render" /\ w'.pc = "send" /\ w.deliveryMethod = "link")
          => DOMAIN store' = DOMAIN store \cup {w.invoiceNumber}
     /\ (w.pc = "throttle" /\ w'.pc = "idle" /\ w.live)
          => /\ jobs'[w.job].returnvalue.invoiceNumber = w.invoiceNumber
             /\ w.numbers = {w.invoiceNumber}]_vars

\* the second run's job is about to complete after two sender attempts in
\* link mode, its document stored under the execution's number
SecondAttemptSameNumber ==
  /\ w.pc = "throttle" /\ w.live /\ Len(w.sent) = 2 /\ w.renders = 2
  /\ w.deliveryMethod = "link"
  /\ w.numbers = {w.invoiceNumber}
  /\ w.invoiceNumber \in DOMAIN store

\* C38: an execution of a job delivers at most one message: the send that
\* succeeds ends the rotation, the job that completes has delivered exactly
\* one message and the job that fails has delivered none.
AtMostOneSendSucceeds ==
  [][/\ w'.delivered <= 1
     /\ (w.pc # "idle" /\ w'.delivered # w.delivered /\ w'.pc # "idle")
          => w.pc = "send" /\ w.delivered = 0 /\ w'.pc = "throttle" /\ w'.success
     /\ (w.pc # "idle" /\ w'.pc = "idle" /\ w.live)
          => /\ jobs'[w.job].st \in {"completed", "failed"}
             /\ jobs'[w.job].st = "completed" => w.delivered = 1
             /\ jobs'[w.job].st = "failed" => w.delivered = 0]_vars

\* the message went out through the second sender after the first was
\* refused
DeliveredOnceAtSecondAttempt ==
  /\ w.pc = "throttle" /\ w.delivered = 1 /\ w.live
  /\ Len(w.sent) = 2 /\ w.sent[1] \in w.flagged /\ w.sent[2] = w.selected

\* C39: a pause flag changes in two ways only: the catch of a send that
\* failed with a rate-limit-shaped error sets the flag of the sender just
\* tried to an hour, and the passing of time runs flags down and out.  Clear,
\* submit, retry and status leave every flag as it is, so whichever batch a
\* job belongs to, it skips a candidate whose flag is still there and builds
\* content only for one whose flag is gone.
PauseFlagsFrame ==
  [][/\ pausedTtl' # pausedTtl
          => \/ /\ w.pc = "caught" /\ IsRateLimitMsg(w.lastError)
                /\ pausedTtl' = [pausedTtl EXCEPT ![w.selected] = PauseTTL]
             \/ /\ \A s \in Senders : pausedTtl'[s] <= pausedTtl[s]
                /\ jobs' = jobs /\ waitQ' = waitQ /\ w' = w
                /\ created' = created /\ runs' = runs /\ liveLogs' = liveLogs
     /\ (w.pc = "check" /\ w'.pc = "render") => pausedTtl[w'.selected] = 0
     /\ (w.pc = "check" /\ w'.skipped # w.skipped /\ w'.pc # "idle")
          => pausedTtl[w'.skipped[Len(w'.skipped)]] > 0]_vars

\* the queue was cleared after the first batch and the job of the second
\* batch, which took the first job's id, has skipped the sender the first
\* batch got paused
PausedSenderSkippedAfterClear ==
  /\ created = 2 /\ runs = 2 /\ nextId = 1
  /\ w.pc # "idle" /\ w.live /\ w.job = 1
  /\ w.skipped # <<>> /\ pausedTtl[w.skipped[1]] = PauseTTL

\* C40: the display name submitted with the batch is the name in the From
\* header of every message an execution sends, beside the address of the
\* sender it goes through.
FromCarriesSubmittedName ==
  w.pc = "send" => /\ fromHeader(w).name = SubmittedName
                   /\ fromHeader(w).address = w.selected
====
